---- MODULE Spec2Model ----
(***************************************************************************)
(* Engine discovery and resolution of ubuild (src/src/core/                *)
(* engine-resolver.ts) and the target resolution of BuildExecutor          *)
(* (src/src/commands/engine.ts), as state machines.                        *)
(*                                                                         *)
(* Conventions.  An optional JavaScript value is a sequence of length at   *)
(* most one: <<>> is undefined, <<x>> is the value x.  A string on which   *)
(* the code runs a regular expression or a path routine is a sequence of   *)
(* atoms (short strings that the routine never splits).                    *)
(***************************************************************************)
EXTENDS Integers, Sequences, FiniteSets, TLC

VARIABLES
  platform,                 \* process.platform
  registry,                 \* the outcome of `reg query` at each registry location
  manifests,                \* the LauncherInstalled.dat at each candidate location
  environ,                  \* process.env, the variables the resolver reads
  disk,                     \* installation roots on disk and their version files
  seen,                     \* removeDuplicateEngines' set when it last returned
  finds,                    \* outcomes of the successive findEngineInstallations calls
  resolved,                 \* the resolveEngine call made: its input and its result
  va, vb, vc, cmp,          \* compareVersions: three operands and the results
  regEntries, regBlank,     \* registry layouts: the (id, path) pairs, blank lines
  parsedSingle, parsedMulti, \* queryRegistryKey's records for the two layouts
  sourceDir,                \* the project's Source directory and its files
  validated,                \* the validateOptions call made: its input and its outcome
  workdir,                  \* the working directory of detectProject and its descriptor
  detected,                 \* the detectProject call made: its result
  probed,                   \* the source adapter called, and what it returned
  scanLines,                \* stdout of a `reg query`, line by line
  scanned,                  \* queryRegistryKey's records for scanLines
  ran,                      \* the findExecutable call made: its input and its outcome
  executed                  \* the BuildExecutor.execute call made: its input and its result

machineVars == <<platform, registry, manifests, environ, disk>>
engineVars == <<machineVars, seen, finds, resolved>>
versionVars == <<va, vb, vc, cmp>>
layoutVars == <<regEntries, regBlank, parsedSingle, parsedMulti>>
targetVars == <<sourceDir, validated>>
detectVars == <<workdir, detected>>
adapterVars == <<probed>>
scanVars == <<scanLines, scanned>>
commandVars == <<ran, executed>>
vars == <<engineVars, versionVars, layoutVars, targetVars, detectVars, adapterVars, scanVars,
         commandVars>>

\* F applied to the value of x.  (TLC evaluates x once and binds its value;
\* a LET definition is evaluated again wherever it is used.)
Apply(F(_), x) == CHOOSE r \in {F(v) : v \in {x}} : TRUE

None == <<>>
Some(x) == <<x>>
IsSome(o) == Len(o) > 0
Get(o) == o[1]

(***************************************************************************)
(* EngineVersionInfo and compareVersions                                   *)
(***************************************************************************)

\* Largest value of a version component that the model enumerates.
MaxVer == 1

BranchNames == {"", "++UE5+Release"}

\* EngineVersionInfo.  The three fields that no code of the repository reads
\* (IsLicenseeVersion, IsPromotedBuild, BuildId) are left out;
\* CompatibleChangelist and BranchName stand for the fields compareVersions
\* ignores.
EngineVersionInfo ==
  [MajorVersion : 0..MaxVer, MinorVersion : 0..MaxVer, PatchVersion : 0..MaxVer,
   Changelist : 0..MaxVer, CompatibleChangelist : {0}, BranchName : BranchNames]

OptVersion == {None} \cup {Some(v) : v \in EngineVersionInfo}

\* compareVersions with a fault: an undefined first operand sorts highest.
compareVersionsUndefinedHigh(a, b) ==
  IF ~IsSome(a) /\ ~IsSome(b) THEN 0
  ELSE IF ~IsSome(a) THEN 1
  ELSE IF ~IsSome(b) THEN 1
  ELSE LET x == Get(a)
           y == Get(b)
       IN IF x.MajorVersion # y.MajorVersion THEN x.MajorVersion - y.MajorVersion
          ELSE IF x.MinorVersion # y.MinorVersion THEN x.MinorVersion - y.MinorVersion
          ELSE IF x.PatchVersion # y.PatchVersion THEN x.PatchVersion - y.PatchVersion
          ELSE x.Changelist - y.Changelist

\* compareVersions(a?, b?): negative, zero or positive.
compareVersions(a, b) ==
  IF ~IsSome(a) /\ ~IsSome(b) THEN 0
  ELSE IF ~IsSome(a) THEN -1
  ELSE IF ~IsSome(b) THEN 1
  ELSE LET x == Get(a)
           y == Get(b)
       IN IF x.MajorVersion # y.MajorVersion THEN x.MajorVersion - y.MajorVersion
          ELSE IF x.MinorVersion # y.MinorVersion THEN x.MinorVersion - y.MinorVersion
          ELSE IF x.PatchVersion # y.PatchVersion THEN x.PatchVersion - y.PatchVersion
          ELSE x.Changelist - y.Changelist

(***************************************************************************)
(* Strings as sequences of atoms                                           *)
(***************************************************************************)

Max(a, b) == IF a > b THEN a ELSE b
Min(a, b) == IF a < b THEN a ELSE b

\* s.slice(i - 1): the atoms of s from position i on.
From(s, i) == IF i > Len(s) THEN <<>> ELSE SubSeq(s, i, Len(s))

\* s.includes(a) for one atom a.
Includes(s, a) == \E i \in 1..Len(s) : s[i] = a

\* s.startsWith(a) for one atom a.
StartsWith(s, a) == Len(s) > 0 /\ s[1] = a

\* Position of the first atom of s at or after i that satisfies Test, or
\* Len(s) + 1.
FirstAt(s, i, Test(_)) ==
  LET hits == {k \in i..Len(s) : Test(s[k])}
  IN IF hits = {} THEN Len(s) + 1 ELSE CHOOSE k \in hits : \A m \in hits : k <= m

\* Position of the last atom of s that satisfies Test, or 0.
LastOf(s, Test(_)) ==
  LET hits == {k \in 1..Len(s) : Test(s[k])}
  IN IF hits = {} THEN 0 ELSE CHOOSE k \in hits : \A m \in hits : k >= m

IsSpace(a) == a = " "
NotSpace(a) == a # " "

\* String.prototype.trim.
trim(s) ==
  LET first == FirstAt(s, 1, NotSpace)
      last == LastOf(s, NotSpace)
  IN IF first > Len(s) THEN <<>> ELSE SubSeq(s, first, last)

\* Concatenation of a sequence of strings.
RECURSIVE Concat(_)
Concat(ss) == IF ss = <<>> THEN <<>> ELSE Head(ss) \o Concat(Tail(ss))

(***************************************************************************)
(* EngineInstallation records                                              *)
(***************************************************************************)

\* An EngineInstallation.  path is optional because the launcher adapter
\* copies InstallLocation without checking it.
Installation(p, id, name, src) ==
  [path |-> p, associationId |-> id, displayName |-> name, version |-> None,
   installedDate |-> None, source |-> src]

(***************************************************************************)
(* Registry source adapter: queryRegistryKey                               *)
(***************************************************************************)

IsCloseBrace(a) == a = "}"
IsRegSz(a) == a = "REG_SZ"

\* /REG_SZ\s+(.+)$/ tried at the REG_SZ atom at position k of a trimmed line:
\* the captured group, if the atom is followed by white space and more text.
RegSzAt(line, k) ==
  LET afterWs == FirstAt(line, k + 1, NotSpace)
  IN IF k + 1 <= Len(line) /\ line[k + 1] = " " /\ afterWs <= Len(line)
     THEN Some(From(line, afterWs))
     ELSE None

\* line.match(/REG_SZ\s+(.+)$/): the group of the leftmost match.
regSzMatch(line) ==
  LET hits == {k \in 1..Len(line) : line[k] = "REG_SZ" /\ IsSome(RegSzAt(line, k))}
  IN IF hits = {} THEN None
     ELSE RegSzAt(line, CHOOSE k \in hits : \A m \in hits : k <= m)

\* /{([^}]+)}\s+REG_SZ\s+(.+)$/ tried at the open brace at position i: the two
\* groups, if a non-empty brace group is followed by white space, REG_SZ,
\* white space and more text.
FullAt(line, i) ==
  LET close == FirstAt(line, i + 1, IsCloseBrace)
      regsz == FirstAt(line, close + 1, NotSpace)
  IN IF /\ close <= Len(line)
        /\ close > i + 1
        /\ regsz > close + 1
        /\ regsz <= Len(line)
        /\ line[regsz] = "REG_SZ"
        /\ IsSome(RegSzAt(line, regsz))
     THEN Some([guid |-> SubSeq(line, i + 1, close - 1),
                path |-> Get(RegSzAt(line, regsz))])
     ELSE None

\* line.match(/{([^}]+)}\s+REG_SZ\s+(.+)$/): the groups of the leftmost match.
fullMatch(line) ==
  LET hits == {i \in 1..Len(line) : line[i] = "{" /\ IsSome(FullAt(line, i))}
  IN IF hits = {} THEN None
     ELSE FullAt(line, CHOOSE i \in hits : \A m \in hits : i <= m)

\* line.match(/^({[^}]+})/): the brace group that opens the line.
guidMatch(line) ==
  LET close == FirstAt(line, 2, IsCloseBrace)
  IN IF StartsWith(line, "{") /\ close <= Len(line) /\ close > 2
     THEN Some(SubSeq(line, 1, close))
     ELSE None

\* The record pushed for a (guid, path) pair found in the registry.
RegistryInstallation(guid, enginePath) ==
  Installation(Some(enginePath), guid, <<"UE Engine ">> \o guid, "registry")

\* scanForward with a fault: the whole following line is taken as the path.
RECURSIVE scanForwardWholeLine(_, _, _)
scanForwardWholeLine(lines, j, registryKey) ==
  IF j > Len(lines) THEN None
  ELSE LET nextLine == trim(lines[j])
       IN IF Includes(nextLine, "REG_SZ")
          THEN Some(nextLine)
          ELSE IF StartsWith(nextLine, "{") \/ Includes(nextLine, registryKey)
               THEN None
               ELSE scanForwardWholeLine(lines, j + 1, registryKey)

\* The inner loop over the lines that follow a GUID line: the path of the
\* first REG_SZ line, unless a GUID line or a key line comes first.
RECURSIVE scanForward(_, _, _)
scanForward(lines, j, registryKey) ==
  IF j > Len(lines) THEN None
  ELSE LET nextLine == trim(lines[j])
       IN IF Includes(nextLine, "REG_SZ")
          THEN IF IsSome(regSzMatch(nextLine))
               THEN Some(trim(Get(regSzMatch(nextLine))))
               ELSE scanForward(lines, j + 1, registryKey)
          ELSE IF StartsWith(nextLine, "{") \/ Includes(nextLine, registryKey)
               THEN None
               ELSE scanForward(lines, j + 1, registryKey)

\* One iteration of the loop over the output lines: the records it pushes.
registryLine(lines, i, registryKey) ==
  LET line == trim(lines[i])
  IN IF line = <<>> THEN <<>>
     ELSE IF IsSome(fullMatch(line))
     THEN <<RegistryInstallation(<<"{">> \o Get(fullMatch(line)).guid \o <<"}">>,
                                 trim(Get(fullMatch(line)).path))>>
     ELSE IF StartsWith(line, "{") /\ IsSome(guidMatch(line))
     THEN LET enginePath == IF IsSome(regSzMatch(line))
                            THEN Some(trim(Get(regSzMatch(line))))
                            ELSE scanForward(lines, i + 1, registryKey)
          IN IF IsSome(enginePath) /\ Get(enginePath) # <<>>
             THEN <<RegistryInstallation(Get(guidMatch(line)), Get(enginePath))>>
             ELSE <<>>
     ELSE <<>>

\* The parse of the output of `reg query <key> /s`, split into lines.
parseRegistryOutput(lines, registryKey) ==
  Concat([i \in 1..Len(lines) |-> registryLine(lines, i, registryKey)])

\* queryRegistryKey: the query's failure is thrown again, its output parsed.
\* query is [failed, message, lines].
queryRegistryKey(query, registryKey) ==
  IF query.failed
  THEN [threw |-> TRUE, message |-> query.message, value |-> <<>>]
  ELSE [threw |-> FALSE, message |-> "",
        value |-> parseRegistryOutput(query.lines, registryKey)]

(***************************************************************************)
(* Paths: path.normalize and String.prototype.toLowerCase                  *)
(***************************************************************************)

\* The atoms with an upper-case letter, and their lower-case forms.
UpperAtoms ==
  {"C:", "D:", "UE_", "UE", "Program", "Files",
   "My", "Tool", "Editor", "EDITOR", "Game", "Client", "Server"}

LowerAtom(a) ==
  CASE a = "C:" -> "c:"
    [] a = "D:" -> "d:"
    [] a = "UE_" -> "ue_"
    [] a = "UE" -> "ue"
    [] a = "Program" -> "program"
    [] a = "Files" -> "files"
    [] a = "My" -> "my"
    [] a = "Tool" -> "tool"
    [] a = "Editor" -> "editor"
    [] a = "EDITOR" -> "editor"
    [] a = "Game" -> "game"
    [] a = "Client" -> "client"
    [] a = "Server" -> "server"
    [] OTHER -> a

toLowerCase(s) == [i \in 1..Len(s) |-> LowerAtom(s[i])]

\* process.platform === 'win32'
\* isWindows with a fault: every platform but macOS counts as Windows.
isWindowsUnlessMac(pf) == pf # "darwin"

\* Platform.isWindows: process.platform === 'win32'
isWindows(pf) == pf = "win32"

\* The separators of path.win32 and of path.posix.
IsSeparator(pf, a) == IF isWindows(pf) THEN a \in {"\\", "/"} ELSE a = "/"

\* path.normalize for paths without `.` and `..` segments: every separator
\* becomes the platform's, a run of separators becomes one, '' becomes '.'.
normalize(pf, p) ==
  LET sep == IF isWindows(pf) THEN "\\" ELSE "/"
      q == [i \in 1..Len(p) |-> IF IsSeparator(pf, p[i]) THEN sep ELSE p[i]]
      keep == {i \in 1..Len(q) : ~(q[i] = sep /\ i > 1 /\ q[i - 1] = sep)}
      Nth(k) == CHOOSE i \in keep : Cardinality({m \in keep : m < i}) = k - 1
  IN IF p = <<>> THEN <<".">>
     ELSE [k \in 1..Cardinality(keep) |-> q[Nth(k)]]

\* normalizedPath with a fault: the lower-casing is forgotten.
normalizedPathCaseSensitive(pf, p) == normalize(pf, p)

\* path.normalize(installation.path).toLowerCase(), the key of the
\* deduplication.
normalizedPath(pf, p) == toLowerCase(normalize(pf, p))

\* The file system's name for a path: Windows file names are case-insensitive.
FsKey(pf, p) ==
  IF isWindows(pf) THEN toLowerCase(normalize(pf, p))
  ELSE normalize(pf, p)

(***************************************************************************)
(* Numbers and strings                                                     *)
(***************************************************************************)

Digits == <<"0", "1", "2", "3", "4", "5", "6", "7", "8", "9">>

IsDigit(a) == \E d \in 1..10 : Digits[d] = a
NotDigit(a) == ~IsDigit(a)

DigitValue(a) == (CHOOSE d \in 1..10 : Digits[d] = a) - 1

\* `${n}` for a natural number n.
RECURSIVE NumberToString(_)
NumberToString(n) ==
  IF n < 10 THEN <<Digits[n + 1]>>
  ELSE NumberToString(n \div 10) \o <<Digits[(n % 10) + 1]>>

RECURSIVE DigitsValue(_)
DigitsValue(ds) ==
  IF ds = <<>> THEN 0
  ELSE 10 * DigitsValue(SubSeq(ds, 1, Len(ds) - 1)) + DigitValue(ds[Len(ds)])

\* parseInt(s): the number its leading digits spell, or NaN (<<>>).  An
\* undefined s (<<>>) has no digits.
parseInt(s) ==
  LET stop == FirstAt(s, 1, NotDigit)
  IN IF stop = 1 THEN None ELSE Some(DigitsValue(SubSeq(s, 1, stop - 1)))

\* parseInt(s) || fallback: NaN and 0 are both falsy.
ParseIntOr(s, fallback) ==
  IF IsSome(parseInt(s)) /\ Get(parseInt(s)) # 0 THEN Get(parseInt(s)) ELSE fallback

\* s.split('.')
RECURSIVE split(_)
split(s) ==
  LET dot == FirstAt(s, 1, LAMBDA a : a = ".")
  IN IF dot > Len(s) THEN <<s>>
     ELSE <<SubSeq(s, 1, dot - 1)>> \o split(From(s, dot + 1))

\* s.replace('_', '.'): the first underscore only.
replaceFirstUnderscore(s) ==
  LET us == FirstAt(s, 1, LAMBDA a : a = "_")
  IN [i \in 1..Len(s) |-> IF i = us THEN "." ELSE s[i]]

\* parts[k] of a split, undefined (<<>>) beyond its length.
Part(parts, k) == IF k <= Len(parts) THEN parts[k] ELSE <<>>

(***************************************************************************)
(* Registry source adapter: getEnginesFromRegistry                         *)
(***************************************************************************)

registryLocations ==
  <<"HKEY_CURRENT_USER\\SOFTWARE\\Epic Games\\Unreal Engine\\Builds",
    "HKEY_LOCAL_MACHINE\\SOFTWARE\\Epic Games\\Unreal Engine\\Builds",
    "HKEY_CURRENT_USER\\SOFTWARE\\EpicGames\\Unreal Engine",
    "HKEY_LOCAL_MACHINE\\SOFTWARE\\EpicGames\\Unreal Engine",
    "HKEY_CURRENT_USER\\SOFTWARE\\Epic Games\\UE_5",
    "HKEY_CURRENT_USER\\SOFTWARE\\Epic Games\\UE_4",
    "HKEY_LOCAL_MACHINE\\SOFTWARE\\Epic Games\\UE_5",
    "HKEY_LOCAL_MACHINE\\SOFTWARE\\Epic Games\\UE_4">>

\* getEnginesFromRegistry with a fault: the first query that throws ends the
\* loop.
getEnginesFromRegistryUntilFailure(reg) ==
  LET failing == {k \in 1..Len(registryLocations) :
                    queryRegistryKey(reg[k], registryLocations[k]).threw}
      last == IF failing = {} THEN Len(registryLocations)
              ELSE (CHOOSE k \in failing : \A m \in failing : k <= m) - 1
  IN Concat([k \in 1..last |-> queryRegistryKey(reg[k], registryLocations[k]).value])

\* getEnginesFromRegistry: every location is queried; a query that throws
\* is logged and contributes nothing.  reg[k] is the outcome of the query of
\* location k.
getEnginesFromRegistry(reg) ==
  Concat([k \in 1..Len(registryLocations) |->
            LET r == queryRegistryKey(reg[k], registryLocations[k])
            IN IF r.threw THEN <<>> ELSE r.value])

(***************************************************************************)
(* Launcher manifest source adapter: getEnginesFromLauncher                *)
(***************************************************************************)

\* The number of candidate locations of LauncherInstalled.dat.
NumManifestPaths == 10

\* The test that keeps an entry of InstallationList.
IsEngineEntry(e) ==
  /\ IsSome(e.AppName)
  /\ Get(e.AppName) # <<>>
  /\ \/ StartsWith(Get(e.AppName), "UE_")
     \/ Includes(Get(e.AppName), "UnrealEngine")
     \/ e.Category = Some(<<"engine">>)

\* The record pushed for an entry: path is InstallLocation as it is.
LauncherInstallation(e) ==
  [Installation(e.InstallLocation, Get(e.AppName),
                IF IsSome(e.DisplayName) /\ Get(e.DisplayName) # <<>>
                THEN Get(e.DisplayName) ELSE Get(e.AppName),
                "launcher")
   EXCEPT !.installedDate = e.InstallDate]

\* The entries of one manifest file.  file is [state, InstallationList]:
\* absent, corrupt (JSON.parse throws, caught and logged) or ok with an
\* optional InstallationList array.
manifestInstallations(file) ==
  IF file.state = "ok" /\ IsSome(file.InstallationList)
  THEN LET list == Get(file.InstallationList)
           kept == SelectSeq(list, IsEngineEntry)
       IN [i \in 1..Len(kept) |-> LauncherInstallation(kept[i])]
  ELSE <<>>

\* getEnginesFromLauncher with a fault: a manifest that fails to parse ends
\* the loop over manifestPaths.
getEnginesFromLauncherUntilCorrupt(files) ==
  Concat([k \in 1..NumManifestPaths |->
            IF \E j \in 1..k : files[j].state = "corrupt" THEN <<>>
            ELSE manifestInstallations(files[k])])

\* getEnginesFromLauncher: the loop over manifestPaths has no break, every
\* candidate that exists and parses contributes.
getEnginesFromLauncher(files) ==
  Concat([k \in 1..NumManifestPaths |-> manifestInstallations(files[k])])

(***************************************************************************)
(* Environment source adapter: getEngineFromEnvironment                    *)
(***************************************************************************)

envVars == <<"UE_ENGINE_PATH", "UE_ROOT", "UNREAL_ENGINE_PATH">>

\* fs.pathExists on a disk whose existing installation roots are DOMAIN dk.
pathExists(pf, dk, p) == FsKey(pf, p) \in DOMAIN dk

\* getEngineFromEnvironment with a fault: the path is not looked up on disk.
getEngineFromEnvironmentUnchecked(pf, env, dk) ==
  LET hits == {k \in 1..Len(envVars) :
                 IsSome(env[envVars[k]]) /\ Get(env[envVars[k]]) # <<>>}
      first == CHOOSE k \in hits : \A m \in hits : k <= m
  IN IF hits = {} THEN None
     ELSE Some(Installation(env[envVars[first]], <<"ENV_", envVars[first]>>,
                            <<"UE Engine (from ", envVars[first], ")">>,
                            "environment"))

\* getEngineFromEnvironment: the first variable that is set, non-empty and
\* names an existing path.
getEngineFromEnvironment(pf, env, dk) ==
  LET Usable(k) == /\ IsSome(env[envVars[k]])
                   /\ Get(env[envVars[k]]) # <<>>
                   /\ pathExists(pf, dk, Get(env[envVars[k]]))
      hits == {k \in 1..Len(envVars) : Usable(k)}
      first == CHOOSE k \in hits : \A m \in hits : k <= m
  IN IF hits = {} THEN None
     ELSE Some(Installation(env[envVars[first]], <<"ENV_", envVars[first]>>,
                            <<"UE Engine (from ", envVars[first], ")">>,
                            "environment"))

(***************************************************************************)
(* loadEngineVersionInfo                                                   *)
(***************************************************************************)

IsVersionSeparator(a) == a \in {".", "_"}

\* The end of the group (\d+(?:[._]\d+)*) whose first digit is at k.
RECURSIVE CaptureEnd(_, _)
CaptureEnd(p, k) ==
  LET runEnd == FirstAt(p, k, NotDigit) - 1
  IN IF /\ runEnd + 2 <= Len(p)
        /\ IsVersionSeparator(p[runEnd + 1])
        /\ IsDigit(p[runEnd + 2])
     THEN CaptureEnd(p, runEnd + 2)
     ELSE runEnd

\* /UE_(?:5|4)[._]?(\d+(?:[._]\d+)*)/i tried at the atom UE_ at position i:
\* the captured group.
PathVersionAt(p, i) ==
  LET start == IF /\ i + 3 <= Len(p)
                  /\ IsVersionSeparator(p[i + 2])
                  /\ IsDigit(p[i + 3])
               THEN i + 3
               ELSE IF i + 2 <= Len(p) /\ IsDigit(p[i + 2]) THEN i + 2 ELSE 0
  IN IF /\ LowerAtom(p[i]) = "ue_"
        /\ i + 1 <= Len(p)
        /\ p[i + 1] \in {"5", "4"}
        /\ start > 0
     THEN Some(SubSeq(p, start, CaptureEnd(p, start)))
     ELSE None

\* installation.path.match(...): the group of the leftmost match.
pathMatch(p) ==
  LET hits == {i \in 1..Len(p) : IsSome(PathVersionAt(p, i))}
  IN IF hits = {} THEN None
     ELSE PathVersionAt(p, CHOOSE i \in hits : \A m \in hits : i <= m)

\* The EngineVersionInfo built from the path's group.
versionFromPath(versionStr) ==
  [MajorVersion |-> ParseIntOr(Part(split(versionStr), 1), 5),
   MinorVersion |-> ParseIntOr(Part(split(versionStr), 2), 0),
   PatchVersion |-> ParseIntOr(Part(split(versionStr), 3), 0),
   Changelist |-> 0, CompatibleChangelist |-> 0, BranchName |-> ""]

\* `UE ${MajorVersion}.${MinorVersion}.${PatchVersion}`
versionDisplayName(v) ==
  <<"UE ">> \o NumberToString(v.MajorVersion) \o <<".">>
  \o NumberToString(v.MinorVersion) \o <<".">> \o NumberToString(v.PatchVersion)

\* The two version files of an installation root that is not on the disk.
NoVersionFiles ==
  [editorVersion |-> [state |-> "absent", info |-> None],
   buildVersion |-> [state |-> "absent", info |-> None]]

\* loadEngineVersionInfo: UnrealEditor.version, then Build.version; the
\* first that exists and parses sets version and displayName.  Otherwise
\* the version is read off the path.  A file is [state, info] with state
\* absent, corrupt or ok.
loadEngineVersionInfo(pf, dk, installation) ==
  LET p == Get(installation.path)
      files == IF pathExists(pf, dk, p) THEN dk[FsKey(pf, p)]
               ELSE NoVersionFiles
      versionStr == replaceFirstUnderscore(Get(pathMatch(p)))
  IN IF files.editorVersion.state = "ok"
     THEN [installation EXCEPT !.version = files.editorVersion.info,
             !.displayName = versionDisplayName(Get(files.editorVersion.info))]
     ELSE IF files.buildVersion.state = "ok"
     THEN [installation EXCEPT !.version = files.buildVersion.info,
             !.displayName = versionDisplayName(Get(files.buildVersion.info))]
     ELSE IF IsSome(pathMatch(p))
     THEN [installation EXCEPT !.version = Some(versionFromPath(versionStr)),
             !.displayName = <<"UE ">> \o versionStr]
     ELSE installation

(***************************************************************************)
(* removeDuplicateEngines and findEngineInstallations                      *)
(***************************************************************************)

\* NewSeenSet with a fault: the set outlives the call that filled it.
StaleSeenSet == seen

\* new Set<string>(): the set of seen paths at the start of a deduplication.
NewSeenSet == {}

\* removeDuplicateEngines from position i on, with the seen set and the
\* unique list so far.  path.normalize throws a TypeError on a path that is
\* not a string.
RECURSIVE DedupFrom(_, _, _, _, _)
DedupFrom(pf, installations, i, seenSoFar, unique) ==
  IF i > Len(installations)
  THEN [threw |-> FALSE, message |-> "", value |-> unique, seen |-> seenSoFar]
  ELSE IF ~IsSome(installations[i].path)
  THEN [threw |-> TRUE,
        message |-> "The \"path\" argument must be of type string. Received undefined",
        value |-> <<>>, seen |-> seenSoFar]
  ELSE LET key == normalizedPath(pf, Get(installations[i].path))
       IN IF key \in seenSoFar
          THEN DedupFrom(pf, installations, i + 1, seenSoFar, unique)
          ELSE DedupFrom(pf, installations, i + 1, seenSoFar \cup {key},
                         Append(unique, installations[i]))

removeDuplicateEngines(pf, installations) ==
  DedupFrom(pf, installations, 1, NewSeenSet, <<>>)

\* discoveredInstallations with a fault: the environment record is pushed
\* before the registry and launcher records.
discoveredInstallationsEnvironmentFirst(pf, reg, files, env, dk) ==
  Apply(LAMBDA envEngine : IF IsSome(envEngine) THEN <<Get(envEngine)>> ELSE <<>>,
        getEngineFromEnvironment(pf, env, dk))
  \o (IF isWindows(pf)
      THEN getEnginesFromRegistry(reg) \o getEnginesFromLauncher(files)
      ELSE <<>>)

\* The records the source adapters return, in the order they are pushed.
discoveredInstallations(pf, reg, files, env, dk) ==
  (IF isWindows(pf)
   THEN getEnginesFromRegistry(reg) \o getEnginesFromLauncher(files)
   ELSE <<>>)
  \o Apply(LAMBDA envEngine : IF IsSome(envEngine) THEN <<Get(envEngine)>> ELSE <<>>,
           getEngineFromEnvironment(pf, env, dk))

\* The loop that loads the version of every unique installation.
loadAll(pf, dk, unique) ==
  IF unique.threw THEN unique
  ELSE [unique EXCEPT !.value =
          [i \in 1..Len(unique.value) |->
             loadEngineVersionInfo(pf, dk, unique.value[i])]]

\* findEngineInstallations: [threw, message, value, seen]; value is the
\* returned array.
findEngineInstallations(pf, reg, files, env, dk) ==
  Apply(LAMBDA unique : loadAll(pf, dk, unique),
        Apply(LAMBDA installations : removeDuplicateEngines(pf, installations),
              discoveredInstallations(pf, reg, files, env, dk)))

(***************************************************************************)
(* getEngineAssociationFromProject and resolveEngine                       *)
(***************************************************************************)

\* s.endsWith('.uproject')
EndsWithUproject(s) == Len(s) > 0 /\ s[Len(s)] = ".uproject"

\* getEngineAssociationFromProject.  project is what the file system holds
\* at projectPath: [path, exists, isDirectory, dirFiles, file], file being
\* the descriptor that is finally read: [readable, parses, json], json the
\* parsed object [FileVersion, EngineAssociation, Modules].
getEngineAssociationFromProject(project) ==
  LET uprojectFiles == SelectSeq(project.dirFiles, EndsWithUproject)
      isDir == project.exists /\ project.isDirectory
      uprojectPath == IF isDir /\ uprojectFiles # <<>>
                      THEN project.path \o <<"\\">> \o uprojectFiles[1]
                      ELSE project.path
  IN IF isDir /\ uprojectFiles = <<>>
     THEN [association |-> None,
           warnings |-> <<<<"No .uproject file found in project directory">>>>]
     ELSE IF ~EndsWithUproject(uprojectPath)
     THEN [association |-> None,
           warnings |-> <<<<"Project path is not a .uproject file">>>>]
     ELSE IF ~project.file.readable
     THEN [association |-> None,
           warnings |-> <<<<"Failed to read project file: ",
                            "ENOENT: no such file or directory">>>>]
     ELSE IF ~project.file.parses
     THEN [association |-> None,
           warnings |-> <<<<"Failed to read project file: ",
                            "Unexpected token in JSON">>>>]
     ELSE IF ~IsSome(project.file.json.EngineAssociation)
             \/ Get(project.file.json.EngineAssociation) = <<>>
     THEN [association |-> None,
           warnings |-> <<<<"No EngineAssociation found in .uproject file">>>>]
     ELSE [association |->
             Some([guid |-> Get(project.file.json.EngineAssociation),
                   name |-> Get(project.file.json.EngineAssociation)]),
           warnings |-> <<>>]

\* engineInstallations.find(engine => engine.associationId === guid)
findByAssociation(installations, guid) ==
  LET hits == {i \in 1..Len(installations) : installations[i].associationId = guid}
  IN IF hits = {} THEN None
     ELSE Some(installations[CHOOSE i \in hits : \A m \in hits : i <= m])

\* installations.sort(compare) for a comparator that is a total preorder:
\* Array.prototype.sort is stable, so the element at position i goes behind
\* the elements that compare lower and the equal ones before it.
stableSort(installations, Compare(_, _)) ==
  LET n == Len(installations)
      Rank(i) == Cardinality({j \in 1..n :
                    \/ Compare(installations[j], installations[i]) < 0
                    \/ (Compare(installations[j], installations[i]) = 0 /\ j < i)})
  IN [r \in 1..n |-> installations[CHOOSE i \in 1..n : Rank(i) = r - 1]]

\* sortNewestFirst with a fault: the comparator's operands are swapped, the
\* oldest version comes first.
sortOldestFirst(installations) ==
  stableSort(installations, LAMBDA a, b : compareVersions(a.version, b.version))

\* engineInstallations.sort((a, b) => compareVersions(b.version, a.version)):
\* the newest version first.
sortNewestFirst(installations) ==
  stableSort(installations, LAMBDA a, b : compareVersions(b.version, a.version))

\* The warning that no installation carries the project's association.
notFoundWarning(guid) ==
  <<"Engine with association ID ">> \o guid \o <<" not found in installed engines">>

\* The warning that the engine was chosen by version.
notAssociatedWarning(engine) ==
  <<"Using engine ">>
  \o (IF engine.displayName # <<>> THEN engine.displayName ELSE engine.associationId)
  \o <<" (not associated with project)">>

\* matchByAssociation with a fault: the association is never looked up.
matchNothing(uprojectEngine, installations) == None

\* The association step of resolveEngine: the first installation that
\* carries the project's association.
matchByAssociation(uprojectEngine, installations) ==
  IF IsSome(uprojectEngine) /\ Len(installations) > 0
  THEN findByAssociation(installations, Get(uprojectEngine).guid)
  ELSE None

\* resolveEngine after the call of findEngineInstallations, whose outcome
\* is found.
resolveWith(project, found) ==
  LET hasPath == IsSome(project) /\ Get(project).path # <<>>
      uprojectResult == getEngineAssociationFromProject(Get(project))
      uprojectEngine == IF hasPath THEN uprojectResult.association ELSE None
      warnings0 == IF hasPath THEN uprojectResult.warnings ELSE <<>>
      engineInstallations == found.value
      byAssociation == matchByAssociation(uprojectEngine, engineInstallations)
      warnings1 == IF /\ IsSome(uprojectEngine)
                      /\ Len(engineInstallations) > 0
                      /\ ~IsSome(byAssociation)
                      /\ Get(uprojectEngine).guid # <<>>
                   THEN Append(warnings0, notFoundWarning(Get(uprojectEngine).guid))
                   ELSE warnings0
      newest == sortNewestFirst(engineInstallations)[1]
  IN IF found.threw
     THEN [engine |-> None, uprojectEngine |-> None, warnings |-> warnings0,
           error |-> Some(found.message), found |-> found]
     ELSE IF ~IsSome(byAssociation) /\ Len(engineInstallations) > 0
     THEN [engine |-> Some(newest), uprojectEngine |-> uprojectEngine,
           warnings |-> Append(warnings1, notAssociatedWarning(newest)),
           error |-> None, found |-> found]
     ELSE [engine |-> byAssociation, uprojectEngine |-> uprojectEngine,
           warnings |-> warnings1, error |-> None, found |-> found]

\* resolveEngine.  project is optional (no projectPath).  The result is
\* [engine, uprojectEngine, warnings, error]; found records the outcome of
\* its call of findEngineInstallations.
resolveEngine(project, pf, reg, files, env, dk) ==
  Apply(LAMBDA found : resolveWith(project, found),
        findEngineInstallations(pf, reg, files, env, dk))

(***************************************************************************)
(* Build targets: BuildExecutor.getAvailableTargets and validateOptions    *)
(***************************************************************************)

\* s.includes(sub), sub a string of several atoms.
includes(s, sub) ==
  \E i \in 1..(Len(s) - Len(sub) + 1) : SubSeq(s, i, i + Len(sub) - 1) = sub

\* path.join(dir, name)
join(pf, dir, name) == dir \o <<IF isWindows(pf) THEN "\\" ELSE "/">> \o name

\* path.dirname(p), p holding a separator.
dirname(pf, p) ==
  LET seps == {i \in 1..Len(p) : IsSeparator(pf, p[i])}
  IN IF seps = {} THEN <<".">>
     ELSE SubSeq(p, 1, (CHOOSE i \in seps : \A j \in seps : j <= i) - 1)

\* f.endsWith('.Target.cs')
EndsWithTargetCs(f) == Len(f) > 0 /\ f[Len(f)] = ".Target.cs"

\* path.basename(file, '.Target.cs')
basename(file) == SubSeq(file, 1, Len(file) - 1)

\* The category inferred from a target's name.
targetType(name) ==
  IF includes(toLowerCase(name), <<"editor">>) THEN <<"Editor">>
  ELSE IF includes(toLowerCase(name), <<"client">>) THEN <<"Client">>
  ELSE IF includes(toLowerCase(name), <<"server">>) THEN <<"Server">>
  ELSE <<"Game">>

\* getAvailableTargets.  source is the one Source directory of the file
\* system: [dir, state, files], dir the project directory that holds it;
\* a directory that cannot be listed makes readdir throw, and the catch
\* returns [].
getAvailableTargets(pf, projectPath, source) ==
  LET projectDir == IF EndsWithUproject(projectPath) THEN dirname(pf, projectPath)
                    ELSE projectPath
      targetFiles == SelectSeq(source.files, EndsWithTargetCs)
  IN IF projectDir # source.dir \/ source.state = "absent" THEN <<>>
     ELSE IF source.state = "unreadable" THEN <<>>
     ELSE [i \in 1..Len(targetFiles) |->
             [name |-> basename(targetFiles[i]),
              type |-> targetType(basename(targetFiles[i]))]]

genericTypes == <<<<"Editor">>, <<"Game">>, <<"Client">>, <<"Server">>>>

\* availableTargets.find: the first of the targets at the positions hits.
find(targets, hits) ==
  IF hits = {} THEN None
  ELSE Some(targets[CHOOSE i \in hits : \A j \in hits : i <= j])

\* findByType with a fault: the last target of the category.
findLastByType(availableTargets, target) ==
  LET hits == {i \in 1..Len(availableTargets) : availableTargets[i].type = target}
  IN IF hits = {} THEN None
     ELSE Some(availableTargets[CHOOSE i \in hits : \A j \in hits : j <= i])

\* availableTargets.find(t => t.type === target)
findByType(availableTargets, target) ==
  find(availableTargets,
       {i \in 1..Len(availableTargets) : availableTargets[i].type = target})

\* availableTargets.find(t => t.name.toLowerCase().includes(target.toLowerCase()))
findByName(availableTargets, target) ==
  find(availableTargets,
       {i \in 1..Len(availableTargets) :
          includes(toLowerCase(availableTargets[i].name), toLowerCase(target))})

\* availableTargets.map(t => t.name).join(', ')
joinNames(availableTargets) ==
  Concat([i \in 1..Len(availableTargets) |->
            IF i = 1 THEN availableTargets[i].name
            ELSE <<", ">> \o availableTargets[i].name])

noTargetFound(target, availableTargets) ==
  <<"No ">> \o target \o <<" target found in project. Available targets: ">>
    \o joinNames(availableTargets)

targetNotFound(target, availableTargets) ==
  <<"Target \"">> \o target \o <<"\" not found in project. Available targets: ">>
    \o joinNames(availableTargets)

\* resolveTarget with a fault: an empty enumeration is searched like any
\* other.
resolveTargetStrict(target, availableTargets) ==
  LET isGenericType == \E i \in 1..Len(genericTypes) : genericTypes[i] = target
      matchingTarget == findByType(availableTargets, target)
      fallbackTarget == findByName(availableTargets, target)
      targetExists == \E i \in 1..Len(availableTargets) : availableTargets[i].name = target
  IN IF isGenericType
     THEN IF IsSome(matchingTarget)
          THEN [threw |-> FALSE, message |-> <<>>, target |-> Get(matchingTarget).name]
          ELSE IF IsSome(fallbackTarget)
          THEN [threw |-> FALSE, message |-> <<>>, target |-> Get(fallbackTarget).name]
          ELSE [threw |-> TRUE, message |-> noTargetFound(target, availableTargets),
                target |-> target]
     ELSE IF targetExists
     THEN [threw |-> FALSE, message |-> <<>>, target |-> target]
     ELSE [threw |-> TRUE, message |-> targetNotFound(target, availableTargets),
           target |-> target]

\* resolveTarget with a fault: an explicit name is looked up the way the
\* fallback of a category is, by case-insensitive containment.
resolveTargetLoose(target, availableTargets) ==
  LET isGenericType == \E i \in 1..Len(genericTypes) : genericTypes[i] = target
      matchingTarget == findByType(availableTargets, target)
      fallbackTarget == findByName(availableTargets, target)
  IN IF Len(availableTargets) = 0
     THEN [threw |-> FALSE, message |-> <<>>, target |-> target]
     ELSE IF isGenericType
     THEN IF IsSome(matchingTarget)
          THEN [threw |-> FALSE, message |-> <<>>, target |-> Get(matchingTarget).name]
          ELSE IF IsSome(fallbackTarget)
          THEN [threw |-> FALSE, message |-> <<>>, target |-> Get(fallbackTarget).name]
          ELSE [threw |-> TRUE, message |-> noTargetFound(target, availableTargets),
                target |-> target]
     ELSE IF IsSome(fallbackTarget)
     THEN [threw |-> FALSE, message |-> <<>>, target |-> target]
     ELSE [threw |-> TRUE, message |-> targetNotFound(target, availableTargets),
           target |-> target]

\* The target resolution of validateOptions: [threw, message, target].
resolveTarget(target, availableTargets) ==
  LET isGenericType == \E i \in 1..Len(genericTypes) : genericTypes[i] = target
      matchingTarget == findByType(availableTargets, target)
      fallbackTarget == findByName(availableTargets, target)
      targetExists == \E i \in 1..Len(availableTargets) : availableTargets[i].name = target
  IN IF Len(availableTargets) = 0
     THEN [threw |-> FALSE, message |-> <<>>, target |-> target]
     ELSE IF isGenericType
     THEN IF IsSome(matchingTarget)
          THEN [threw |-> FALSE, message |-> <<>>, target |-> Get(matchingTarget).name]
          ELSE IF IsSome(fallbackTarget)
          THEN [threw |-> FALSE, message |-> <<>>, target |-> Get(fallbackTarget).name]
          ELSE [threw |-> TRUE, message |-> noTargetFound(target, availableTargets),
                target |-> target]
     ELSE IF targetExists
     THEN [threw |-> FALSE, message |-> <<>>, target |-> target]
     ELSE [threw |-> TRUE, message |-> targetNotFound(target, availableTargets),
           target |-> target]

\* options.x || fallback, for a string.
OrElse(o, fallback) == IF IsSome(o) /\ Get(o) # <<>> THEN Get(o) ELSE fallback

\* validateOptions from the validation of the engine path on.  resolution is
\* the result of the resolveEngine call, when one was made.
validateWith(options, projectPath, resolution, pf, dk, source) ==
  LET given == IsSome(options.enginePath) /\ Get(options.enginePath) # <<>>
      enginePath == IF given THEN Get(options.enginePath)
                    ELSE Get(Get(Get(resolution).engine).path)
      availableTargets == getAvailableTargets(pf, projectPath, source)
      resolvedTarget == resolveTarget(OrElse(options.target, <<"Editor">>), availableTargets)
      Thrown(message) ==
        [threw |-> TRUE, message |-> message, value |-> None,
         availableTargets |-> None, resolution |-> resolution]
  IN IF ~given /\ ~IsSome(Get(resolution).engine)
     THEN Thrown(<<"Could not determine engine path. Please specify --engine-path">>)
     ELSE IF ~pathExists(pf, dk, enginePath)
     THEN Thrown(<<"Engine path does not exist: ">> \o enginePath)
     ELSE IF resolvedTarget.threw
     THEN [Thrown(resolvedTarget.message) EXCEPT !.availableTargets = Some(availableTargets)]
     ELSE [threw |-> FALSE, message |-> <<>>,
           value |-> Some([target |-> resolvedTarget.target,
                           config |-> OrElse(options.config, <<"Development">>),
                           platform |-> OrElse(options.platform, <<"Win64">>),
                           projectPath |-> projectPath,
                           enginePath |-> enginePath,
                           clean |-> FALSE, verbose |-> FALSE,
                           additionalArgs |-> <<>>]),
           availableTargets |-> Some(availableTargets),
           resolution |-> resolution]

\* validateOptions.  project is what the file system holds at
\* options.projectPath, or at the working directory when the option is not
\* given.  The outcome is [threw, message, value]; availableTargets and
\* resolution record the enumeration and the resolveEngine result it used.
validateOptions(options, project, pf, reg, files, env, dk, source) ==
  LET isDir == project.exists /\ project.isDirectory
      uprojectFiles == SelectSeq(project.dirFiles, EndsWithUproject)
      projectPath == IF isDir THEN join(pf, project.path, uprojectFiles[1])
                     ELSE project.path
      atPath == IF isDir
                THEN [project EXCEPT !.path = projectPath, !.isDirectory = FALSE,
                                     !.dirFiles = <<>>]
                ELSE project
      given == IsSome(options.enginePath) /\ Get(options.enginePath) # <<>>
  IN IF isDir /\ uprojectFiles = <<>>
     THEN [threw |-> TRUE,
           message |-> <<"No .uproject file found in project directory: ">> \o project.path,
           value |-> None, availableTargets |-> None, resolution |-> None]
     ELSE IF given
     THEN validateWith(options, projectPath, None, pf, dk, source)
     ELSE Apply(LAMBDA r : validateWith(options, projectPath, Some(r), pf, dk, source),
                resolveEngine(Some(atPath), pf, reg, files, env, dk))

(***************************************************************************)
(* BuildExecutor.execute                                                   *)
(***************************************************************************)

\* `await childProcess` of execa: the process ends with exit code 0 and the
\* promise resolves, or it cannot be started (no exit code) or ends with
\* another exit code and the promise rejects.  process is [started,
\* exitCode]; the outcome is [threw, message, exitCode].
awaitChildProcess(process) ==
  IF ~process.started
  THEN [threw |-> TRUE, message |-> <<"Command failed: spawn ENOENT">>, exitCode |-> 0]
  ELSE IF process.exitCode # 0
  THEN [threw |-> TRUE,
        message |-> <<"Command failed with exit code ">> \o NumberToString(process.exitCode),
        exitCode |-> process.exitCode]
  ELSE [threw |-> FALSE, message |-> <<>>, exitCode |-> 0]

\* The BuildResult of the catch block of execute.
executionFailed(message) ==
  [success |-> FALSE, exitCode |-> -1, stdout |-> <<>>, stderr |-> message,
   error |-> Some(<<"Build execution failed">>)]

\* The BuildResult execute makes of the exit code of the build tool.
buildResult(exitCode) ==
  [success |-> exitCode = 0, exitCode |-> exitCode, stdout |-> <<>>, stderr |-> <<>>,
   error |-> IF exitCode = 0 THEN None
             ELSE Some(<<"Build failed with exit code ">> \o NumberToString(exitCode))]

\* execute with a fault: the catch block reports exit code 0.
executeWithCatchZero(validation, tools, process) ==
  LET child == awaitChildProcess(process)
      Caught(message, invoked) ==
        [threw |-> FALSE, invoked |-> invoked,
         result |-> [executionFailed(message) EXCEPT !.exitCode = 0]]
  IN IF validation.threw THEN Caught(validation.message, "none")
     ELSE IF ~tools.buildBat /\ ~tools.unrealBuildTool
     THEN Caught(<<"UnrealBuildTool not found at: ">>
                   \o Get(validation.value).enginePath, "none")
     ELSE IF child.threw
     THEN Caught(child.message, IF tools.buildBat THEN "Build.bat" ELSE "UnrealBuildTool")
     ELSE [threw |-> FALSE,
           invoked |-> IF tools.buildBat THEN "Build.bat" ELSE "UnrealBuildTool",
           result |-> buildResult(child.exitCode)]

\* execute from the return of validateOptions on.  validation is the
\* outcome of validateOptions, tools says which of Build.bat and
\* UnrealBuildTool the engine has, process is how the build tool ends when
\* it is started.  The outcome is [threw, invoked, result]: invoked names
\* the tool started ("none" when none was), result is the BuildResult.
executeWith(validation, tools, process) ==
  LET child == awaitChildProcess(process)
      Caught(message, invoked) ==
        [threw |-> FALSE, invoked |-> invoked, result |-> executionFailed(message)]
  IN IF validation.threw THEN Caught(validation.message, "none")
     ELSE IF ~tools.buildBat /\ ~tools.unrealBuildTool
     THEN Caught(<<"UnrealBuildTool not found at: ">>
                   \o Get(validation.value).enginePath, "none")
     ELSE IF child.threw
     THEN Caught(child.message, IF tools.buildBat THEN "Build.bat" ELSE "UnrealBuildTool")
     ELSE [threw |-> FALSE,
           invoked |-> IF tools.buildBat THEN "Build.bat" ELSE "UnrealBuildTool",
           result |-> buildResult(child.exitCode)]

(***************************************************************************)
(* The run command: findExecutable                                         *)
(***************************************************************************)

\* path.basename(projectPath, '.uproject') of a path to a descriptor.
uprojectBaseName(pf, p) ==
  LET seps == {i \in 1..Len(p) : IsSeparator(pf, p[i])}
      from == IF seps = {} THEN 1 ELSE (CHOOSE i \in seps : \A j \in seps : j <= i) + 1
  IN SubSeq(p, from, Len(p) - 1)

\* The target name findExecutable goes on with: the first target of the
\* category asked for, else options.target as it is.
runTargetName(target, availableTargets) ==
  LET isGenericType == \E i \in 1..Len(genericTypes) : genericTypes[i] = target
      matchingTarget == findByType(availableTargets, target)
  IN IF Len(availableTargets) > 0 /\ isGenericType /\ IsSome(matchingTarget)
     THEN Get(matchingTarget).name
     ELSE target

\* The executable of an editor target, no editor binary being on the disk:
\* the expected UnrealEditor.exe of the engine.
editorExePath(pf, enginePath, buildPlatform) ==
  join(pf, join(pf, join(pf, join(pf, enginePath, <<"Engine">>), <<"Binaries">>),
                buildPlatform),
       <<"UnrealEditor.exe">>)

\* The executable of another target, no project binary being on the disk:
\* the most likely path.
projectExePath(pf, projectDir, buildPlatform, projectName) ==
  join(pf, join(pf, join(pf, projectDir, <<"Binaries">>), buildPlatform),
       Append(projectName, ".exe"))

\* findExecutable.  project is what the file system holds at
\* options.project; the outcome is [value, targetName, resolution]: the path
\* returned (null is None), the target name the call went on with, when it
\* came to resolve one, and the result of the resolveEngine call, when one
\* was made.  No binary is on the disk.
findExecutable(options, project, pf, reg, files, env, dk, source) ==
  LET isDir == project.exists /\ project.isDirectory
      uprojectFiles == SelectSeq(project.dirFiles, EndsWithUproject)
      projectPath == project.path
      projectDir == IF ~isDir /\ EndsWithUproject(projectPath)
                    THEN dirname(pf, projectPath) ELSE projectPath
      projectName == IF isDir
                     THEN IF uprojectFiles # <<>> THEN basename(uprojectFiles[1]) ELSE <<>>
                     ELSE IF EndsWithUproject(projectPath)
                     THEN uprojectBaseName(pf, projectPath) ELSE <<>>
      targetName == runTargetName(options.target,
                                  getAvailableTargets(pf, projectPath, source))
      isEditor == includes(toLowerCase(targetName), <<"editor">>)
      given == IsSome(options.enginePath) /\ Get(options.enginePath) # <<>>
      buildPlatform == OrElse(options.platform, <<"Win64">>)
  IN IF projectName = <<>>
     THEN [value |-> None, targetName |-> None, resolution |-> None]
     ELSE IF ~isEditor
     THEN [value |-> Some(projectExePath(pf, projectDir, buildPlatform, projectName)),
           targetName |-> Some(targetName), resolution |-> None]
     ELSE IF given
     THEN [value |-> Some(editorExePath(pf, Get(options.enginePath), buildPlatform)),
           targetName |-> Some(targetName), resolution |-> None]
     ELSE Apply(LAMBDA r :
                  IF r.found.threw \/ ~IsSome(r.engine)
                  THEN [value |-> None, targetName |-> Some(targetName),
                        resolution |-> Some(r)]
                  ELSE [value |-> Some(editorExePath(pf, Get(Get(r.engine).path),
                                                     buildPlatform)),
                        targetName |-> Some(targetName), resolution |-> Some(r)],
                resolveEngine(Some(project), pf, reg, files, env, dk))

(***************************************************************************)
(* Project detection: ProjectDetector.detectProject                        *)
(***************************************************************************)

\* validateUProject with a fault: the Modules array is not required.
validateUProjectWithoutModules(uproject) ==
  IF uproject.FileVersion = None
  THEN [isValid |-> FALSE, error |-> Some(<<"Missing FileVersion field">>),
        warnings |-> <<>>]
  ELSE IF uproject.EngineAssociation = None \/ uproject.EngineAssociation = Some(<<>>)
  THEN [isValid |-> FALSE, error |-> Some(<<"Missing EngineAssociation field">>),
        warnings |-> <<>>]
  ELSE [isValid |-> TRUE, error |-> None, warnings |-> <<>>]

\* validateUProject.  uproject is the parsed descriptor: [FileVersion,
\* EngineAssociation, Modules], each field optional.
validateUProject(uproject) ==
  LET warnings == IF uproject.FileVersion # None /\ uproject.FileVersion # Some(3)
                  THEN <<<<"Unexpected FileVersion: ",
                           NumberToString(Get(uproject.FileVersion)),
                           ". Expected 3.">>>>
                  ELSE <<>>
  IN IF uproject.FileVersion = None
     THEN [isValid |-> FALSE, error |-> Some(<<"Missing FileVersion field">>),
           warnings |-> <<>>]
     ELSE IF uproject.EngineAssociation = None \/ uproject.EngineAssociation = Some(<<>>)
     THEN [isValid |-> FALSE, error |-> Some(<<"Missing EngineAssociation field">>),
           warnings |-> warnings]
     ELSE IF uproject.Modules = None \/ ~Get(uproject.Modules).isArray
     THEN [isValid |-> FALSE, error |-> Some(<<"Missing or invalid Modules array">>),
           warnings |-> warnings]
     ELSE [isValid |-> TRUE, error |-> None, warnings |-> warnings]

\* f.endsWith('.Build.cs')
EndsWithBuildCs(f) == Len(f) > 0 /\ f[Len(f)] = ".Build.cs"

\* glob('*.Target.cs', { cwd: sourceDir }): the names with that suffix; the
\* star does not match a name that begins with a dot.
MatchesTargetGlob(f) ==
  Len(f) > 1 /\ f[Len(f)] = ".Target.cs" /\ f[1] # "."

\* targetFileType with a fault: client is looked for before editor.
targetFileTypeClientFirst(fileName) ==
  IF includes(toLowerCase(fileName), <<"client">>) THEN <<"Client">>
  ELSE IF includes(toLowerCase(fileName), <<"editor">>) THEN <<"Editor">>
  ELSE IF includes(toLowerCase(fileName), <<"server">>) THEN <<"Server">>
  ELSE <<"Game">>

\* The type findTargetFiles determines from a file name.
targetFileType(fileName) ==
  IF includes(toLowerCase(fileName), <<"editor">>) THEN <<"Editor">>
  ELSE IF includes(toLowerCase(fileName), <<"client">>) THEN <<"Client">>
  ELSE IF includes(toLowerCase(fileName), <<"server">>) THEN <<"Server">>
  ELSE <<"Game">>

\* findTargetFiles: the *.Target.cs files of the Source directory.
findTargetFiles(pf, sourcePath, source) ==
  LET files == SelectSeq(source.files, MatchesTargetGlob)
  IN [i \in 1..Len(files) |->
        [name |-> basename(files[i]), type |-> targetFileType(basename(files[i])),
         path |-> join(pf, sourcePath, files[i])]]

\* findModuleFiles: the *.Build.cs files of the Source directory.
findModuleFiles(pf, sourcePath, source) ==
  LET files == SelectSeq(source.files, EndsWithBuildCs)
  IN [i \in 1..Len(files) |->
        [name |-> basename(files[i]), path |-> join(pf, sourcePath, files[i])]]

\* detectProject.  dir is the working directory: [files, file], files the
\* names it holds and file the first descriptor among them as it is read:
\* [readable, parses, json]; source is the Source directory.  The result is
\* [isValid, project, error, warnings].
detectProject(pf, cwd, dir, source) ==
  LET uprojectFiles == SelectSeq(dir.files, EndsWithUproject)
      uprojectPath == join(pf, cwd, uprojectFiles[1])
      projectDir == dirname(pf, uprojectPath)
      uproject == Get(dir.file.json)
      validationResult == validateUProject(uproject)
      sourcePath == join(pf, projectDir, <<"Source">>)
      hasSourceDir == projectDir = source.dir /\ source.state # "absent"
      Failed(error, warnings) ==
        [isValid |-> FALSE, project |-> None, error |-> Some(error), warnings |-> warnings]
  IN IF uprojectFiles = <<>>
     THEN Failed(<<"No Unreal Engine project (.uproject) file found">>, <<>>)
     ELSE IF ~dir.file.readable
     THEN Failed(<<"ENOENT: no such file or directory">>, <<>>)
     ELSE IF ~dir.file.parses
     THEN Failed(<<"Unexpected token in JSON">>, <<>>)
     ELSE IF ~validationResult.isValid
     THEN Failed(<<"Invalid .uproject file: ">> \o Get(validationResult.error),
                 validationResult.warnings)
     ELSE [isValid |-> TRUE,
           project |->
             Some([name |-> SubSeq(uprojectFiles[1], 1, Len(uprojectFiles[1]) - 1),
                   path |-> projectDir,
                   uproject |-> uproject,
                   sourceDir |-> IF hasSourceDir THEN sourcePath ELSE <<>>,
                   targets |-> IF hasSourceDir
                               THEN findTargetFiles(pf, sourcePath, source) ELSE <<>>,
                   modules |-> IF hasSourceDir
                               THEN findModuleFiles(pf, sourcePath, source) ELSE <<>>]),
           error |-> None,
           warnings |-> IF hasSourceDir THEN <<>>
                        ELSE <<<<"Source directory not found - this may be a blueprint-only project">>>>]

(***************************************************************************)
(* Specifications                                                          *)
(***************************************************************************)

KeyNotFound ==
  [failed |-> TRUE, lines |-> <<>>,
   message |-> "ERROR: The system was unable to find the specified registry key or value."]

AccessDenied ==
  [failed |-> TRUE, lines |-> <<>>, message |-> "ERROR: Access is denied."]

AbsentFile == [state |-> "absent", InstallationList |-> None]

\* A machine with no registry key, no manifest, no variable and no engine.
EngineIdle ==
  /\ platform = "win32"
  /\ registry = [k \in 1..Len(registryLocations) |-> KeyNotFound]
  /\ manifests = [k \in 1..NumManifestPaths |-> AbsentFile]
  /\ environ = [v \in {envVars[k] : k \in 1..Len(envVars)} |-> None]
  /\ disk = <<>>
  /\ seen = {}
  /\ finds = <<>>
  /\ resolved = None

\* No Source directory, no validateOptions call.
TargetIdle ==
  /\ sourceDir = [dir |-> <<>>, state |-> "absent", files |-> <<>>]
  /\ validated = None

\* No working directory read, no detectProject call.
DetectIdle ==
  /\ workdir = [files |-> <<>>, file |-> [readable |-> FALSE, parses |-> FALSE, json |-> None]]
  /\ detected = None

\* No source adapter called on its own.
AdapterIdle == probed = None

\* No registry output parsed line by line.
ScanIdle == scanLines = <<>> /\ scanned = None

\* No command of the command line was run.
CommandIdle == ran = None /\ executed = None

VersionsIdle == va = None /\ vb = None /\ vc = None /\ cmp = None

LayoutIdle ==
  regEntries = <<>> /\ regBlank = FALSE /\ parsedSingle = None /\ parsedMulti = None

(***************************************************************************)
(* SpecVersions: compareVersions applied to drawn operands                 *)
(***************************************************************************)

VersionsInit ==
  /\ CommandIdle
  /\ va \in OptVersion
  /\ vb \in OptVersion
  /\ vc = None
  /\ cmp = None
  /\ LayoutIdle
  /\ EngineIdle
  /\ TargetIdle
  /\ DetectIdle
  /\ AdapterIdle
  /\ ScanIdle

\* One use of the comparator on the operands (a, b, c): every pairwise result.
CompareCall ==
  /\ cmp = None
  /\ \E c \in OptVersion :
       /\ vc' = c
       /\ cmp' = Some([ab |-> compareVersions(va, vb), ba |-> compareVersions(vb, va),
                       bc |-> compareVersions(vb, c), cb |-> compareVersions(c, vb),
                       ac |-> compareVersions(va, c), ca |-> compareVersions(c, va)])
  /\ UNCHANGED <<commandVars, va, vb, layoutVars, engineVars, targetVars, detectVars, adapterVars, scanVars>>

VersionsNext == CompareCall

SpecVersions == VersionsInit /\ [][VersionsNext]_vars

(***************************************************************************)
(* SpecLayouts: queryRegistryKey on the two layouts of the same pairs      *)
(***************************************************************************)

\* Largest number of (id, path) pairs under one registry key.
MaxRegEntries == 2

RegGuids == {<<"{", "G1", "}">>, <<"{", "G2", "}">>}

RegPaths ==
  {<<"C:", "\\", "UE_", "5", ".", "3">>,
   <<"C:", "\\", "Program", " ", "Files", "\\", "UE">>,
   <<"d:", "/", "ue">>}

RegValueNames == {"EnginePath", "InstalledDirectory"}

RegEntry == [guid : RegGuids, path : RegPaths, name : RegValueNames]

\* The sequences over S of length at most n.
SeqUpTo(S, n) == UNION {[1..k -> S] : k \in 0..n}

\* The key line with which reg.exe opens a section.
KeyLine(registryKey) == <<registryKey>>

\* Layout 1: the value is named by the GUID: `    {GUID}    REG_SZ    <path>`.
SingleLineLayout(e) ==
  <<<<" ", " ">> \o e.guid \o <<" ", " ", "REG_SZ", " ", " ">> \o e.path>>

\* Layout 2: the GUID alone, then `    <name>    REG_SZ    <path>`, with an
\* optional blank line between the two.
MultiLineLayout(e, blank) ==
  <<e.guid>> \o (IF blank THEN <<<<>>>> ELSE <<>>)
  \o <<<<" ", " ", e.name, " ", " ", "REG_SZ", " ", " ">> \o e.path>>

RegistryOutput(registryKey, entries, Layout(_)) ==
  <<<<>>, KeyLine(registryKey)>>
  \o Concat([i \in 1..Len(entries) |-> Layout(entries[i])]) \o <<<<>>>>

LayoutKey == "HKEY_CURRENT_USER\\SOFTWARE\\Epic Games\\Unreal Engine\\Builds"

LayoutsInit ==
  /\ CommandIdle
  /\ regEntries \in SeqUpTo(RegEntry, MaxRegEntries)
  /\ regBlank \in BOOLEAN
  /\ parsedSingle = None
  /\ parsedMulti = None
  /\ VersionsIdle
  /\ EngineIdle
  /\ TargetIdle
  /\ DetectIdle
  /\ AdapterIdle
  /\ ScanIdle

\* queryRegistryKey on the output that carries regEntries in each layout.
QueryLayouts ==
  /\ parsedSingle = None
  /\ LET Multi(e) == MultiLineLayout(e, regBlank)
     IN /\ parsedSingle' = Some(queryRegistryKey(
             [failed |-> FALSE, message |-> "",
              lines |-> RegistryOutput(LayoutKey, regEntries, SingleLineLayout)],
             LayoutKey))
        /\ parsedMulti' = Some(queryRegistryKey(
             [failed |-> FALSE, message |-> "",
              lines |-> RegistryOutput(LayoutKey, regEntries, Multi)],
             LayoutKey))
  /\ UNCHANGED <<commandVars, regEntries, regBlank, versionVars, engineVars, targetVars, detectVars, adapterVars, scanVars>>

LayoutsNext == QueryLayouts

SpecLayouts == LayoutsInit /\ [][LayoutsNext]_vars

(***************************************************************************)
(* Spec: a machine drawn from the pools below, on which                    *)
(* findEngineInstallations and resolveEngine are called                    *)
(***************************************************************************)

\* Largest number of successive findEngineInstallations calls.
MaxCalls == 2

G1 == <<"{", "G1", "}">>
G2 == <<"{", "G2", "}">>

\* C:\UE_5.3, the same directory spelled c:/ue_5.3, D:\UE, C:\UE_4.27 and a
\* directory that does not exist.
PathA == <<"C:", "\\", "UE_", "5", ".", "3">>
PathAalt == <<"c:", "/", "ue_", "5", ".", "3">>
PathB == <<"D:", "\\", "UE">>
PathC == <<"C:", "\\", "UE_", "4", ".", "2", "7">>
PathGone == <<"D:", "\\", "gone">>

Version(major, minor, patch, changelist) ==
  [MajorVersion |-> major, MinorVersion |-> minor, PatchVersion |-> patch,
   Changelist |-> changelist, CompatibleChangelist |-> changelist,
   BranchName |-> "++UE5+Release"]

RegOutput(k, entries, Layout(_)) ==
  [failed |-> FALSE, message |-> "",
   lines |-> RegistryOutput(registryLocations[k], entries, Layout)]

MultiLine(e) == MultiLineLayout(e, FALSE)

\* The registries drawn: the first two locations vary, the others hold no
\* key.
Registries ==
  {[k \in 1..Len(registryLocations) |->
      IF k = 1 THEN r1 ELSE IF k = 2 THEN r2 ELSE KeyNotFound] :
     r1 \in {KeyNotFound,
             RegOutput(1, <<[guid |-> G1, path |-> PathA, name |-> "EnginePath"]>>,
                       SingleLineLayout)},
     r2 \in {AccessDenied,
             RegOutput(2, <<[guid |-> G2, path |-> PathB, name |-> "EnginePath"]>>,
                       MultiLine),
             RegOutput(2, <<[guid |-> G2, path |-> PathAalt, name |-> "EnginePath"]>>,
                       SingleLineLayout)}}

ManifestEntry(appName, location, category) ==
  [AppName |-> appName, InstallLocation |-> location, DisplayName |-> None,
   Category |-> category, InstallDate |-> None]

OkFile(list) == [state |-> "ok", InstallationList |-> Some(list)]

\* The launcher manifests drawn: candidates 1 and 3 vary.
ManifestSets ==
  {[k \in 1..NumManifestPaths |->
      IF k = 1 THEN m1 ELSE IF k = 3 THEN m3 ELSE AbsentFile] :
     m1 \in {AbsentFile,
             [state |-> "corrupt", InstallationList |-> None],
             OkFile(<<ManifestEntry(Some(<<"UE_", "5", ".", "3">>), Some(PathAalt), None),
                      ManifestEntry(Some(<<"Fortnite">>), Some(PathB), Some(<<"games">>))>>),
             OkFile(<<ManifestEntry(Some(<<"UE_", "4", ".", "2", "7">>), None, None)>>)},
     m3 \in {AbsentFile,
             OkFile(<<ManifestEntry(Some(<<"UE_", "4", ".", "2", "7">>), Some(PathC),
                                    Some(<<"engine">>))>>)}}

Environments ==
  {[v \in {envVars[k] : k \in 1..Len(envVars)} |->
      IF v = "UE_ENGINE_PATH" THEN e1 ELSE IF v = "UE_ROOT" THEN e2 ELSE None] :
     e1 \in {None, Some(PathGone), Some(PathB)},
     e2 \in {None, Some(PathAalt)}}

VersionFiles(editor, build) == [editorVersion |-> editor, buildVersion |-> build]
Absent == [state |-> "absent", info |-> None]
Corrupt == [state |-> "corrupt", info |-> None]
Ok(v) == [state |-> "ok", info |-> Some(v)]

\* The version files drawn for C:\UE_5.3, D:\UE and C:\UE_4.27.
VersionFileSets ==
  {<<NoVersionFiles, NoVersionFiles, NoVersionFiles>>,
   <<VersionFiles(Absent, Ok(Version(5, 1, 0, 100))), NoVersionFiles, NoVersionFiles>>,
   <<NoVersionFiles, VersionFiles(Corrupt, Ok(Version(5, 3, 2, 300))),
     VersionFiles(Ok(Version(4, 27, 2, 50)), Absent)>>,
   <<VersionFiles(Absent, Ok(Version(5, 1, 0, 100))),
     VersionFiles(Corrupt, Ok(Version(5, 3, 2, 300))),
     VersionFiles(Ok(Version(4, 27, 2, 50)), Absent)>>}

\* The disks drawn for a platform: the three engine directories exist, with
\* or without version files.
Disks(pf) ==
  {[key \in {FsKey(pf, p) : p \in {PathA, PathAalt, PathB, PathC}} |->
      IF key \in {FsKey(pf, PathA), FsKey(pf, PathAalt)} THEN f[1]
      ELSE IF key = FsKey(pf, PathB) THEN f[2] ELSE f[3]] :
     f \in VersionFileSets}

Descriptor(association, modules) ==
  [readable |-> TRUE, parses |-> TRUE,
   json |-> [FileVersion |-> Some(3), EngineAssociation |-> association,
             Modules |-> modules]]

ProjectFile(file) ==
  [path |-> <<"C:", "\\", "Proj", "\\", "Proj", ".uproject">>, exists |-> file.readable,
   isDirectory |-> FALSE, dirFiles |-> <<>>, file |-> file]

ProjectDir(dirFiles, file) ==
  [path |-> <<"C:", "\\", "Proj">>, exists |-> TRUE, isDirectory |-> TRUE,
   dirFiles |-> dirFiles, file |-> file]

\* The Modules of a descriptor: missing, an array, or a value that is not
\* an array.
NoModules == None
OneModule == Some([isArray |-> TRUE, items |-> <<<<"Proj">>>>])
NotAnArray == Some([isArray |-> FALSE, items |-> <<>>])

\* The project paths resolveEngine is called with, and what they hold.
Projects ==
  {ProjectFile(Descriptor(Some(G1), OneModule)),
   ProjectFile(Descriptor(Some(G2), OneModule)),
   ProjectFile(Descriptor(Some(<<"5", ".", "3">>), OneModule)),
   ProjectFile(Descriptor(Some(G1), NoModules)),
   ProjectFile(Descriptor(None, OneModule)),
   ProjectFile([Descriptor(None, None) EXCEPT !.readable = FALSE]),
   ProjectFile([Descriptor(None, None) EXCEPT !.parses = FALSE]),
   ProjectDir(<<<<"Content">>, <<"Proj", ".uproject">>>>, Descriptor(Some(G1), OneModule)),
   ProjectDir(<<<<"Content">>>>, Descriptor(None, None)),
   [ProjectFile(Descriptor(Some(G1), OneModule)) EXCEPT !.path = <<"C:", "\\", "Proj.txt">>]}

Init ==
  /\ CommandIdle
  /\ platform \in {"win32", "linux"}
  /\ IF isWindows(platform)
     THEN registry \in Registries /\ manifests \in ManifestSets
     ELSE /\ registry = [k \in 1..Len(registryLocations) |-> KeyNotFound]
          /\ manifests = [k \in 1..NumManifestPaths |-> AbsentFile]
  /\ environ \in Environments
  /\ disk \in Disks(platform)
  /\ seen = {}
  /\ finds = <<>>
  /\ resolved = None
  /\ VersionsIdle
  /\ LayoutIdle
  /\ TargetIdle
  /\ DetectIdle
  /\ AdapterIdle
  /\ ScanIdle

\* A call of findEngineInstallations.
FindCall ==
  /\ Len(finds) < MaxCalls
  /\ resolved = None
  /\ \E found \in {findEngineInstallations(platform, registry, manifests, environ, disk)} :
       /\ finds' = Append(finds, [threw |-> found.threw, value |-> found.value])
       /\ seen' = found.seen
  /\ UNCHANGED <<commandVars, machineVars, resolved, versionVars, layoutVars, targetVars, detectVars, adapterVars, scanVars>>

\* A call of resolveEngine, without a project path or with one of Projects.
ResolveCall ==
  /\ resolved = None
  /\ finds = <<>>
  /\ \E project \in {None} \cup {Some(pr) : pr \in Projects} :
       \E r \in {resolveEngine(project, platform, registry, manifests, environ, disk)} :
          /\ resolved' = Some([project |-> project,
                               result |-> [engine |-> r.engine,
                                           uprojectEngine |-> r.uprojectEngine,
                                           warnings |-> r.warnings,
                                           error |-> r.error],
                               threw |-> r.found.threw,
                               catalog |-> r.found.value])
          /\ seen' = r.found.seen
  /\ UNCHANGED <<commandVars, machineVars, finds, versionVars, layoutVars, targetVars, detectVars, adapterVars, scanVars>>

Next == FindCall \/ ResolveCall

Spec == Init /\ [][Next]_vars

(***************************************************************************)
(* SpecTargets: validateOptions on drawn Source directories and options    *)
(***************************************************************************)

\* Largest number of files in the Source directory.
MaxTargetFiles == 2

TargetFile(name) == Append(name, ".Target.cs")

\* The files a Source directory may hold.
SourceFiles ==
  {TargetFile(<<"My", "Game">>),
   TargetFile(<<"My", "Game", "Editor">>),
   TargetFile(<<"Tool", "EDITOR">>),
   TargetFile(<<"My", "Client", "Editor">>),
   TargetFile(<<"My", "Game", "Server">>),
   TargetFile(<<"My", "Client">>),
   <<"My", "Game", ".Build.cs">>}

\* A directory listing: no file name twice.
Listings ==
  {l \in SeqUpTo(SourceFiles, MaxTargetFiles) :
     \A i, j \in 1..Len(l) : l[i] = l[j] => i = j}

ProjectRoot == <<"C:", "\\", "Proj">>

SourceDirs ==
  {[dir |-> ProjectRoot, state |-> "absent", files |-> <<>>],
   [dir |-> ProjectRoot, state |-> "unreadable", files |-> <<>>]}
  \cup {[dir |-> ProjectRoot, state |-> "ok", files |-> l] : l \in Listings}

\* The targets requested: none, the four categories, a target's name, that
\* name in lower case, a name no target has.
Requests ==
  {None, Some(<<"Editor">>), Some(<<"Game">>), Some(<<"Client">>), Some(<<"Server">>),
   Some(<<"My", "Game">>), Some(<<"my", "game">>), Some(<<"Other">>)}

BuildOptions ==
  [target : Requests,
   config : {None},
   platform : {None},
   enginePath : {None, Some(PathB), Some(PathGone)}]

\* What options.projectPath holds: a descriptor, a directory with one, a
\* directory without.
BuildProjects ==
  {ProjectFile(Descriptor(Some(G1), OneModule)),
   ProjectDir(<<<<"Content">>, <<"Proj", ".uproject">>>>, Descriptor(Some(G1), OneModule)),
   ProjectDir(<<<<"Content">>>>, Descriptor(None, None))}

TargetsInit ==
  /\ CommandIdle
  /\ platform = "win32"
  /\ registry = [k \in 1..Len(registryLocations) |-> KeyNotFound]
  /\ manifests = [k \in 1..NumManifestPaths |-> AbsentFile]
  /\ environ \in {e \in Environments : e["UE_ENGINE_PATH"] # Some(PathGone)
                                        /\ e["UE_ROOT"] = None}
  /\ disk \in {d \in Disks(platform) : \A key \in DOMAIN d : d[key] = NoVersionFiles}
  /\ seen = {}
  /\ finds = <<>>
  /\ resolved = None
  /\ VersionsIdle
  /\ LayoutIdle
  /\ sourceDir \in SourceDirs
  /\ validated = None
  /\ DetectIdle
  /\ AdapterIdle
  /\ ScanIdle

\* A call of validateOptions.
ValidateCall ==
  /\ validated = None
  /\ \E options \in BuildOptions, project \in BuildProjects :
       \E r \in {validateOptions(options, project, platform, registry, manifests,
                                 environ, disk, sourceDir)} :
          /\ validated' = Some([options |-> options, project |-> project,
                                threw |-> r.threw, message |-> r.message,
                                value |-> r.value,
                                availableTargets |-> r.availableTargets])
          /\ seen' = IF IsSome(r.resolution) THEN Get(r.resolution).found.seen ELSE seen
  /\ UNCHANGED <<commandVars, machineVars, finds, resolved, versionVars, layoutVars, sourceDir, detectVars, adapterVars, scanVars>>

TargetsNext == ValidateCall

SpecTargets == TargetsInit /\ [][TargetsNext]_vars

(***************************************************************************)
(* SpecDetect: detectProject on drawn working directories                  *)
(***************************************************************************)

\* Largest FileVersion drawn for a descriptor.
MaxFileVersion == 3

\* The descriptors drawn: every field present or missing, FileVersion of
\* any value, EngineAssociation empty, Modules not an array.
DetectDescriptors ==
  {[readable |-> TRUE, parses |-> TRUE,
    json |-> Some([FileVersion |-> v, EngineAssociation |-> a, Modules |-> m])] :
     v \in {None} \cup {Some(n) : n \in 2..MaxFileVersion},
     a \in {None, Some(<<>>), Some(G1), Some(<<"5", ".", "3">>)},
     m \in {NoModules, OneModule, NotAnArray, Some([isArray |-> TRUE, items |-> <<>>])}}
  \cup {[readable |-> FALSE, parses |-> FALSE, json |-> None],
        [readable |-> TRUE, parses |-> FALSE, json |-> None]}

WorkdirFiles ==
  {<<<<"Content">>>>,
   <<<<"Content">>, <<"Proj", ".uproject">>>>,
   <<<<"Other", ".uproject">>, <<"Proj", ".uproject">>>>}

DetectInit ==
  /\ CommandIdle
  /\ EngineIdle
  /\ VersionsIdle
  /\ LayoutIdle
  /\ AdapterIdle
  /\ ScanIdle
  /\ validated = None
  /\ sourceDir \in {d \in SourceDirs : d.state # "unreadable" /\ Len(d.files) # 1}
  /\ workdir \in [files : WorkdirFiles, file : DetectDescriptors]
  /\ detected = None

\* A call of detectProject with cwd the project root.
DetectCall ==
  /\ detected = None
  /\ detected' = Some(detectProject(platform, ProjectRoot, workdir, sourceDir))
  /\ UNCHANGED <<commandVars, engineVars, versionVars, layoutVars, targetVars, workdir, adapterVars, scanVars>>

DetectNext == DetectCall

SpecDetect == DetectInit /\ [][DetectNext]_vars

(***************************************************************************)
(* SpecEnumerators: detectProject and validateOptions on one Source        *)
(* directory                                                               *)
(***************************************************************************)

\* Largest number of files in the Source directory of SpecEnumerators.
MaxEnumeratedFiles == 2

\* The files of the Source directory: names with one, two or no category
\* word, in either order and case, a hidden file, a module file.
EnumeratorFiles ==
  {TargetFile(<<"My", "Game">>),
   TargetFile(<<"My", "Game", "Editor">>),
   TargetFile(<<"Tool", "EDITOR">>),
   TargetFile(<<"My", "Client", "Editor">>),
   TargetFile(<<"My", "Server", "Client">>),
   TargetFile(<<"My", "Server", "Editor">>),
   TargetFile(<<"My", "Game", "Server">>),
   TargetFile(<<"My", "Client">>),
   TargetFile(<<".", "My", "Game", "Editor">>),
   <<"My", "Game", ".Build.cs">>}

EnumeratorsInit ==
  /\ CommandIdle
  /\ platform = "win32"
  /\ registry = [k \in 1..Len(registryLocations) |-> KeyNotFound]
  /\ manifests = [k \in 1..NumManifestPaths |-> AbsentFile]
  /\ environ \in {e \in Environments : e["UE_ENGINE_PATH"] = None /\ e["UE_ROOT"] = None}
  /\ disk \in {d \in Disks(platform) : \A key \in DOMAIN d : d[key] = NoVersionFiles}
  /\ seen = {}
  /\ finds = <<>>
  /\ resolved = None
  /\ VersionsIdle
  /\ LayoutIdle
  /\ AdapterIdle
  /\ ScanIdle
  /\ sourceDir \in
       {[dir |-> ProjectRoot, state |-> "absent", files |-> <<>>]}
       \cup {[dir |-> ProjectRoot, state |-> "ok", files |-> l] :
               l \in {l \in SeqUpTo(EnumeratorFiles, MaxEnumeratedFiles) :
                        \A i, j \in 1..Len(l) : l[i] = l[j] => i = j}}
  /\ validated = None
  /\ workdir = [files |-> <<<<"Content">>, <<"Proj", ".uproject">>>>,
                file |-> [readable |-> TRUE, parses |-> TRUE,
                          json |-> Some([FileVersion |-> Some(3),
                                         EngineAssociation |-> Some(G1),
                                         Modules |-> OneModule])]]
  /\ detected = None

EnumeratorsNext == DetectCall \/ ValidateCall

SpecEnumerators == EnumeratorsInit /\ [][EnumeratorsNext]_vars

(***************************************************************************)
(* SpecGating: findEngineInstallations and resolveEngine on platforms      *)
(* other than Windows                                                      *)
(***************************************************************************)

\* The machine is not a Windows one.  registry and manifests are what the
\* registry and launcher adapters would find if they were called.
GatingInit ==
  /\ CommandIdle
  /\ platform \in {"linux", "darwin"}
  /\ registry \in Registries
  /\ manifests \in ManifestSets
  /\ environ \in Environments
  /\ disk \in Disks(platform)
  /\ seen = {}
  /\ finds = <<>>
  /\ resolved = None
  /\ VersionsIdle
  /\ LayoutIdle
  /\ TargetIdle
  /\ DetectIdle
  /\ AdapterIdle
  /\ ScanIdle

SpecGating == GatingInit /\ [][Next]_vars

(***************************************************************************)
(* SpecRun: validateOptions of a build and findExecutable of a run of the  *)
(* same project and target                                                 *)
(***************************************************************************)

RunInit ==
  /\ platform = "win32"
  /\ registry = [k \in 1..Len(registryLocations) |-> KeyNotFound]
  /\ manifests = [k \in 1..NumManifestPaths |-> AbsentFile]
  /\ environ \in {e \in Environments : e["UE_ENGINE_PATH"] # Some(PathGone)
                                        /\ e["UE_ROOT"] = None}
  /\ disk \in {d \in Disks(platform) : \A key \in DOMAIN d : d[key] = NoVersionFiles}
  /\ seen = {}
  /\ finds = <<>>
  /\ resolved = None
  /\ VersionsIdle
  /\ LayoutIdle
  /\ sourceDir \in SourceDirs
  /\ validated = None
  /\ DetectIdle
  /\ AdapterIdle
  /\ ScanIdle
  /\ CommandIdle

\* A call of findExecutable by the run command, for the project and with
\* the target, platform and engine path of the build; the command line
\* gives the target Editor when none is named.
RunCall ==
  /\ IsSome(validated)
  /\ ran = None
  /\ \E options \in {[Get(validated).options EXCEPT
                         !.target = Some(OrElse(Get(validated).options.target,
                                                <<"Editor">>))]} :
       \E r \in {findExecutable([options EXCEPT !.target = Get(options.target)],
                                 Get(validated).project, platform, registry, manifests,
                                 environ, disk, sourceDir)} :
         /\ ran' = Some([options |-> options, project |-> Get(validated).project,
                         value |-> r.value, targetName |-> r.targetName])
         /\ seen' = IF IsSome(r.resolution) THEN Get(r.resolution).found.seen ELSE seen
  /\ UNCHANGED <<machineVars, finds, resolved, versionVars, layoutVars, targetVars,
                 detectVars, adapterVars, scanVars, executed>>

RunNext == ValidateCall \/ RunCall

SpecRun == RunInit /\ [][RunNext]_vars

(***************************************************************************)
(* SpecExecute: BuildExecutor.execute on drawn options, projects and tools *)
(***************************************************************************)

\* Largest exit code of the build tool.
MaxExitCode == 2

\* The build tools the engine has: Build.bat, UnrealBuildTool, both, neither.
ToolSets == [buildBat : BOOLEAN, unrealBuildTool : BOOLEAN]

\* How the build tool ends: it cannot be started, or exits with a code.
ToolProcesses ==
  {[started |-> FALSE, exitCode |-> 0]}
  \cup {[started |-> TRUE, exitCode |-> c] : c \in 0..MaxExitCode}

ExecuteInit ==
  /\ platform = "win32"
  /\ registry = [k \in 1..Len(registryLocations) |-> KeyNotFound]
  /\ manifests = [k \in 1..NumManifestPaths |-> AbsentFile]
  /\ environ \in {e \in Environments : e["UE_ENGINE_PATH"] # Some(PathGone)
                                        /\ e["UE_ROOT"] = None}
  /\ disk \in {d \in Disks(platform) : \A key \in DOMAIN d : d[key] = NoVersionFiles}
  /\ seen = {}
  /\ finds = <<>>
  /\ resolved = None
  /\ VersionsIdle
  /\ LayoutIdle
  /\ sourceDir \in {d \in SourceDirs : Len(d.files) <= 1}
  /\ validated = None
  /\ DetectIdle
  /\ AdapterIdle
  /\ ScanIdle
  /\ CommandIdle

\* A call of execute.
ExecuteCall ==
  /\ executed = None
  /\ \E options \in BuildOptions, project \in BuildProjects,
        tools \in ToolSets, process \in ToolProcesses :
       \E validation \in {validateOptions(options, project, platform, registry, manifests,
                                          environ, disk, sourceDir)} :
         \E r \in {executeWith(validation, tools, process)} :
           /\ executed' = Some([options |-> options, project |-> project,
                                tools |-> tools, process |-> process,
                                validation |-> [threw |-> validation.threw,
                                                message |-> validation.message],
                                threw |-> r.threw, invoked |-> r.invoked,
                                result |-> r.result])
           /\ seen' = IF IsSome(validation.resolution)
                      THEN Get(validation.resolution).found.seen ELSE seen
  /\ UNCHANGED <<machineVars, finds, resolved, versionVars, layoutVars, targetVars,
                 detectVars, adapterVars, scanVars, ran>>

ExecuteNext == ExecuteCall

SpecExecute == ExecuteInit /\ [][ExecuteNext]_vars

(***************************************************************************)
(* SpecAdapters: each source adapter called on a machine where its source  *)
(* is populated                                                            *)
(***************************************************************************)

\* The number of registry locations that vary.
MaxProbeLocations == 3

\* Largest number of entries in a manifest's InstallationList.
MaxManifestEntries == 2

\* What the query of location k may give: no key, no permission, one
\* registration.
ProbeOutcomes(k) ==
  LET entries == <<[guid |-> IF k % 2 = 1 THEN G1 ELSE G2,
                    path |-> IF k % 3 = 1 THEN PathA ELSE IF k % 3 = 2 THEN PathB ELSE PathC,
                    name |-> "EnginePath"]>>
  IN {KeyNotFound, AccessDenied,
      IF k % 2 = 1 THEN RegOutput(k, entries, SingleLineLayout)
      ELSE RegOutput(k, entries, MultiLine)}

ProbeRegistries ==
  {r \in [1..Len(registryLocations) -> UNION {ProbeOutcomes(k) : k \in 1..MaxProbeLocations}
                                         \cup {KeyNotFound}] :
     \A k \in 1..Len(registryLocations) :
       IF k <= MaxProbeLocations THEN r[k] \in ProbeOutcomes(k) ELSE r[k] = KeyNotFound}

\* The entries a manifest may list: application identifiers with the UE_
\* prefix, with UnrealEngine inside, with UE_ inside only, other software,
\* with and without the engine category, and entries without identifier.
ProbeEntries ==
  {ManifestEntry(Some(<<"UE_", "5", ".", "3">>), Some(PathA), None),
   ManifestEntry(Some(<<"Epic", "UnrealEngine">>), Some(PathB), Some(<<"games">>)),
   ManifestEntry(Some(<<"Fortnite">>), Some(PathC), Some(<<"engine">>)),
   ManifestEntry(Some(<<"Fortnite">>), Some(PathB), Some(<<"games">>)),
   ManifestEntry(Some(<<"My", "UE_">>), Some(PathB), None),
   ManifestEntry(None, Some(PathC), Some(<<"engine">>)),
   ManifestEntry(Some(<<>>), Some(PathC), Some(<<"engine">>))}

ProbeManifests ==
  {[k \in 1..NumManifestPaths |->
      IF k = 1 THEN m1 ELSE IF k = 2 THEN m2 ELSE AbsentFile] :
     m1 \in {AbsentFile, [state |-> "corrupt", InstallationList |-> None],
             [state |-> "ok", InstallationList |-> None]}
            \cup {OkFile(l) : l \in SeqUpTo(ProbeEntries, MaxManifestEntries)},
     m2 \in {AbsentFile,
             OkFile(<<ManifestEntry(Some(<<"UE_", "4", ".", "2", "7">>), Some(PathC), None)>>)}}

ProbeEnvironments ==
  [{envVars[k] : k \in 1..Len(envVars)} ->
     {None, Some(<<>>), Some(PathGone), Some(PathA), Some(PathB)}]

AdaptersInit ==
  /\ CommandIdle
  /\ platform = "win32"
  /\ \/ /\ registry \in ProbeRegistries
        /\ manifests = [k \in 1..NumManifestPaths |-> AbsentFile]
        /\ environ = [v \in {envVars[k] : k \in 1..Len(envVars)} |-> None]
     \/ /\ registry = [k \in 1..Len(registryLocations) |-> KeyNotFound]
        /\ manifests \in ProbeManifests
        /\ environ = [v \in {envVars[k] : k \in 1..Len(envVars)} |-> None]
     \/ /\ registry = [k \in 1..Len(registryLocations) |-> KeyNotFound]
        /\ manifests = [k \in 1..NumManifestPaths |-> AbsentFile]
        /\ environ \in ProbeEnvironments
  /\ disk \in {d \in Disks(platform) : \A key \in DOMAIN d : d[key] = NoVersionFiles}
  /\ seen = {}
  /\ finds = <<>>
  /\ resolved = None
  /\ VersionsIdle
  /\ LayoutIdle
  /\ TargetIdle
  /\ DetectIdle
  /\ ScanIdle
  /\ probed = None

\* A call of getEnginesFromRegistry.
RegistryProbe ==
  /\ probed = None
  /\ probed' = Some([adapter |-> "registry", value |-> getEnginesFromRegistry(registry)])
  /\ UNCHANGED <<commandVars, engineVars, versionVars, layoutVars, targetVars, detectVars, scanVars>>

\* A call of getEnginesFromLauncher.
LauncherProbe ==
  /\ probed = None
  /\ probed' = Some([adapter |-> "launcher", value |-> getEnginesFromLauncher(manifests)])
  /\ UNCHANGED <<commandVars, engineVars, versionVars, layoutVars, targetVars, detectVars, scanVars>>

\* A call of getEngineFromEnvironment; the value is the installation
\* returned, if any.
EnvironmentProbe ==
  /\ probed = None
  /\ probed' = Some([adapter |-> "environment",
                     value |-> getEngineFromEnvironment(platform, environ, disk)])
  /\ UNCHANGED <<commandVars, engineVars, versionVars, layoutVars, targetVars, detectVars, scanVars>>

AdaptersNext == RegistryProbe \/ LauncherProbe \/ EnvironmentProbe

SpecAdapters == AdaptersInit /\ [][AdaptersNext]_vars

(***************************************************************************)
(* SpecScan: queryRegistryKey on drawn sequences of output lines           *)
(***************************************************************************)

\* Largest number of lines of the output.
MaxScanLines == 3

\* The lines drawn: a token alone, a path line, a token with its path on
\* the same line, the key line, the line of a subkey, a blank line.
ScanLinePool ==
  {G1, G2,
   <<" ", " ", "EnginePath", " ", " ", "REG_SZ", " ", " ">> \o PathA,
   <<" ", " ">> \o G2 \o <<" ", " ", "REG_SZ", " ", " ">> \o PathB,
   KeyLine(LayoutKey),
   <<LayoutKey, "\\", "Sub">>,
   <<>>}

ScanInit ==
  /\ CommandIdle
  /\ EngineIdle
  /\ VersionsIdle
  /\ LayoutIdle
  /\ TargetIdle
  /\ DetectIdle
  /\ AdapterIdle
  /\ scanLines \in SeqUpTo(ScanLinePool, MaxScanLines)
  /\ scanned = None

\* A call of queryRegistryKey whose `reg query` printed scanLines.
ScanCall ==
  /\ scanned = None
  /\ scanned' = Some(queryRegistryKey([failed |-> FALSE, message |-> "", lines |-> scanLines],
                                      LayoutKey))
  /\ UNCHANGED <<commandVars, engineVars, versionVars, layoutVars, targetVars, detectVars, adapterVars,
                 scanLines>>

ScanNext == ScanCall

SpecScan == ScanInit /\ [][ScanNext]_vars

(***************************************************************************)
(* Claims                                                                  *)
(***************************************************************************)

Sign(n) == IF n < 0 THEN -1 ELSE IF n > 0 THEN 1 ELSE 0

\* The components compareVersions orders by; no version sorts below all.
VersionKey(v) ==
  IF IsSome(v)
  THEN <<1, Get(v).MajorVersion, Get(v).MinorVersion, Get(v).PatchVersion,
         Get(v).Changelist>>
  ELSE <<0, 0, 0, 0, 0>>

\* The last resolveEngine call: its input, its result, the catalog that
\* findEngineInstallations returned to it.
Call == Get(resolved)
Returned == IsSome(resolved) /\ ~Call.threw

\* The association that the descriptor at the call's project path declares:
\* the path is a .uproject file or a directory that holds one, the file is
\* readable JSON and its EngineAssociation is a non-empty string.
DeclaredAssociation(project) ==
  IF /\ IsSome(project)
     /\ Get(project).path # <<>>
     /\ IF Get(project).exists /\ Get(project).isDirectory
        THEN \E i \in 1..Len(Get(project).dirFiles) :
               EndsWithUproject(Get(project).dirFiles[i])
        ELSE EndsWithUproject(Get(project).path)
     /\ Get(project).file.readable
     /\ Get(project).file.parses
     /\ IsSome(Get(project).file.json.EngineAssociation)
     /\ Get(Get(project).file.json.EngineAssociation) # <<>>
  THEN Get(project).file.json.EngineAssociation
  ELSE None

Carries(catalog, guid) == \E i \in 1..Len(catalog) : catalog[i].associationId = guid

\* The association of the call matches an installation of its catalog.
Associated ==
  /\ IsSome(DeclaredAssociation(Call.project))
  /\ Carries(Call.catalog, Get(DeclaredAssociation(Call.project)))

\* k1 <= k2 in the lexicographic order of version keys.
RECURSIVE LexLeq(_, _)
LexLeq(k1, k2) ==
  IF k1 = <<>> THEN TRUE
  ELSE IF Head(k1) # Head(k2) THEN Head(k1) < Head(k2)
  ELSE LexLeq(Tail(k1), Tail(k2))

\* C1: when the descriptor declares the association G and the catalog holds
\* an installation with associationId G, resolveEngine returns an
\* installation of the catalog with associationId G (the first one), also
\* when another installation has a strictly newer version.
C1_AssociationFirst ==
  Returned /\ Associated =>
    LET guid == Get(DeclaredAssociation(Call.project))
        first == CHOOSE i \in 1..Len(Call.catalog) :
                   /\ Call.catalog[i].associationId = guid
                   /\ \A j \in 1..(i - 1) : Call.catalog[j].associationId # guid
    IN /\ Call.result.engine = Some(Call.catalog[first])
       /\ Call.result.error = None

\* C1 witness: the project's engine is returned although the catalog holds
\* a strictly newer one.
C1_Witness ==
  /\ Returned
  /\ Associated
  /\ IsSome(Call.result.engine)
  /\ \E i \in 1..Len(Call.catalog) :
       /\ Call.catalog[i].associationId # Get(DeclaredAssociation(Call.project))
       /\ LexLeq(VersionKey(Get(Call.result.engine).version),
                 VersionKey(Call.catalog[i].version))
       /\ VersionKey(Get(Call.result.engine).version) # VersionKey(Call.catalog[i].version)

\* The catalog's versions are 5.1, 5.3 and 4.27.
ExampleCatalog(catalog) ==
  {<<VersionKey(catalog[i].version)[2], VersionKey(catalog[i].version)[3]>> :
     i \in 1..Len(catalog)} = {<<5, 1>>, <<5, 3>>, <<4, 27>>}

\* C2: when no installation is matched by association and the catalog is not
\* empty, resolveEngine returns an installation of the catalog whose version
\* is greatest in the order Major, Minor, Patch, Changelist (no version
\* lowest), and its last warning says that the engine is not associated
\* with the project; of the versions 5.1, 5.3 and 4.27 it returns 5.3.
C2_FallbackNewest ==
  Returned /\ ~Associated /\ Len(Call.catalog) > 0 =>
    /\ IsSome(Call.result.engine)
    /\ \E i \in 1..Len(Call.catalog) : Call.catalog[i] = Get(Call.result.engine)
    /\ \A i \in 1..Len(Call.catalog) :
         LexLeq(VersionKey(Call.catalog[i].version),
                VersionKey(Get(Call.result.engine).version))
    /\ Len(Call.result.warnings) > 0
    /\ Call.result.warnings[Len(Call.result.warnings)]
         = notAssociatedWarning(Get(Call.result.engine))
    /\ (ExampleCatalog(Call.catalog) =>
          /\ Get(Get(Call.result.engine).version).MajorVersion = 5
          /\ Get(Get(Call.result.engine).version).MinorVersion = 3)

\* C2 witness: the fallback picks 5.3 out of 5.1, 5.3 and 4.27 for a project
\* whose association no installation carries.
C2_Witness ==
  /\ Returned
  /\ IsSome(DeclaredAssociation(Call.project))
  /\ ~Associated
  /\ ExampleCatalog(Call.catalog)
  /\ IsSome(Call.result.engine)
  /\ Get(Get(Call.result.engine).version).MinorVersion = 3

\* C3: a resolveEngine call whose discovery finds no installation returns no
\* engine, no failure and at least one warning.
C3_EmptyCatalogWarns ==
  Returned /\ Len(Call.catalog) = 0 =>
    /\ Call.result.engine = None
    /\ Call.result.error = None
    /\ Len(Call.result.warnings) > 0

\* Every catalog a call returned: those of findEngineInstallations, and the
\* one inside resolveEngine.
ReturnedCatalogs ==
  {finds[k].value : k \in {k \in 1..Len(finds) : ~finds[k].threw}}
  \cup (IF Returned THEN {Call.catalog} ELSE {})

\* The path of an installation, case-insensitive and separator-normalized.
Canonical(installation) == toLowerCase(normalize(platform, Get(installation.path)))

Discovered == discoveredInstallations(platform, registry, manifests, environ, disk)

\* C4: no two entries of a returned catalog have the same normalized path,
\* and every discovered path has exactly one entry.
C4_Deduplicated ==
  \A catalog \in ReturnedCatalogs :
    /\ \A i, j \in 1..Len(catalog) :
         Canonical(catalog[i]) = Canonical(catalog[j]) => i = j
    /\ \E discovered \in {Discovered} :
         \A d \in 1..Len(discovered) :
           Cardinality({i \in 1..Len(catalog) :
                          Canonical(catalog[i]) = Canonical(discovered[d])}) = 1

\* C4 witness: two sources reported the same directory in different
\* spellings, and the catalog returned has one entry for it.
C4_Witness ==
  /\ Len(finds) > 0
  /\ ~finds[1].threw
  /\ \E discovered \in {Discovered} :
       \E d, e \in 1..Len(discovered) :
         /\ discovered[d].source # discovered[e].source
         /\ discovered[d].path # discovered[e].path
         /\ Canonical(discovered[d]) = Canonical(discovered[e])
         /\ Cardinality({i \in 1..Len(finds[1].value) :
                           Canonical(finds[1].value[i]) = Canonical(discovered[d])}) = 1

\* C5: findEngineInstallations never throws, whatever the sources hold.
C5_FindNeverThrows ==
  /\ \A k \in 1..Len(finds) : ~finds[k].threw
  /\ IsSome(resolved) => ~Call.threw

\* Something failed in the call: the descriptor could not be read or
\* declares no association, the association matches no installation,
\* discovery failed, or no installation was found.
SomethingFailed ==
  \/ IsSome(Call.project) /\ ~IsSome(DeclaredAssociation(Call.project))
  \/ IsSome(DeclaredAssociation(Call.project)) /\ ~Associated
  \/ Call.threw
  \/ Call.result.engine = None

\* C6: every resolveEngine call returns a result, and when something failed
\* the result's error is set or its warnings are not empty.
C6_FailuresReported ==
  IsSome(resolved) /\ SomethingFailed =>
    IsSome(Call.result.error) \/ Len(Call.result.warnings) > 0

SameSet(c1, c2) ==
  {c1[i] : i \in 1..Len(c1)} = {c2[i] : i \in 1..Len(c2)}

C11_UnmatchedReported ==
  Returned /\ IsSome(DeclaredAssociation(Call.project)) /\ ~Associated =>
    \E w \in 1..Len(Call.result.warnings) :
      Call.result.warnings[w] = notFoundWarning(Get(DeclaredAssociation(Call.project)))

\* A project path was given and its descriptor yields no association: the
\* directory holds no descriptor, the path does not name one, the file
\* cannot be read or parsed, or it has no EngineAssociation.
DescriptorFailed ==
  /\ IsSome(resolved)
  /\ IsSome(Call.project)
  /\ Get(Call.project).path # <<>>
  /\ DeclaredAssociation(Call.project) = None

\* C12: when reading the descriptor fails, the result has a warning about
\* the descriptor, no error and no uprojectEngine, and its engine is the
\* newest installation of the catalog.
C12_DescriptorFailureNotFatal ==
  DescriptorFailed =>
    /\ Len(Call.result.warnings) > 0
    /\ Call.result.warnings[1] \in
         {<<"No .uproject file found in project directory">>,
          <<"Project path is not a .uproject file">>,
          <<"No EngineAssociation found in .uproject file">>,
          <<"Failed to read project file: ", "ENOENT: no such file or directory">>,
          <<"Failed to read project file: ", "Unexpected token in JSON">>}
    /\ Call.result.error = None
    /\ Call.result.uprojectEngine = None
    /\ Len(Call.catalog) > 0 =>
         /\ IsSome(Call.result.engine)
         /\ \A i \in 1..Len(Call.catalog) :
              LexLeq(VersionKey(Call.catalog[i].version),
                     VersionKey(Get(Call.result.engine).version))

\* The descriptor read by the call is valid JSON without a Modules array.
LacksModules ==
  /\ IsSome(resolved)
  /\ IsSome(Call.project)
  /\ Get(Call.project).file.readable
  /\ Get(Call.project).file.parses
  /\ Get(Call.project).file.json.Modules = None

\* C14: for a descriptor without a Modules array resolveEngine extracts no
\* association, and does not match an installation by the descriptor's
\* EngineAssociation.
C14_ModulesRequired ==
  LacksModules =>
    /\ Call.result.uprojectEngine = None
    /\ ~(/\ IsSome(Call.result.engine)
         /\ Some(Get(Call.result.engine).associationId)
              = Get(Call.project).file.json.EngineAssociation)

\* The descriptor that the last detectProject call read and parsed.
Parsed ==
  /\ IsSome(detected)
  /\ \E i \in 1..Len(workdir.files) : EndsWithUproject(workdir.files[i])
  /\ workdir.file.readable
  /\ workdir.file.parses

Json == Get(workdir.file.json)

MissingVersion == Json.FileVersion = None
MissingAssociation == Json.EngineAssociation \in {None, Some(<<>>)}
MissingModules == Json.Modules = None \/ ~Get(Json.Modules).isArray

\* C13: a descriptor without FileVersion, EngineAssociation or a Modules
\* array makes detectProject return isValid = false, no project and an
\* error that names a missing field; a project that is returned holds the
\* descriptor's own three fields.
C13_InvalidDescriptorRejected ==
  Parsed =>
    /\ MissingVersion \/ MissingAssociation \/ MissingModules =>
         /\ ~Get(detected).isValid
         /\ Get(detected).project = None
         /\ \/ /\ MissingVersion
               /\ Get(detected).error
                    = Some(<<"Invalid .uproject file: ", "Missing FileVersion field">>)
            \/ /\ MissingAssociation
               /\ Get(detected).error
                    = Some(<<"Invalid .uproject file: ", "Missing EngineAssociation field">>)
            \/ /\ MissingModules
               /\ Get(detected).error
                    = Some(<<"Invalid .uproject file: ", "Missing or invalid Modules array">>)
    /\ IsSome(Get(detected).project) =>
         /\ Get(Get(detected).project).uproject = Json
         /\ ~MissingVersion /\ ~MissingAssociation /\ ~MissingModules

\* C13 witness: a descriptor with FileVersion and EngineAssociation but no
\* Modules array is rejected for its Modules.
C13_Witness ==
  /\ Parsed
  /\ ~MissingVersion
  /\ ~MissingAssociation
  /\ MissingModules
  /\ ~Get(detected).isValid
  /\ Get(detected).error = Some(<<"Invalid .uproject file: ", "Missing or invalid Modules array">>)

\* The adapter called on its own, and what it returned.
Probe == Get(probed)
Probed(adapter) == IsSome(probed) /\ Probe.adapter = adapter

\* The candidate manifests that exist and parse.
ValidManifests == {k \in 1..NumManifestPaths : manifests[k].state = "ok"}

EntriesOf(k) ==
  IF IsSome(manifests[k].InstallationList) THEN Get(manifests[k].InstallationList) ELSE <<>>

\* C15: the launcher adapter's installations all come from the first
\* candidate manifest that exists and parses; later candidates add nothing.
C15_OneManifest ==
  Probed("launcher") /\ ValidManifests # {} =>
    LET first == CHOOSE k \in ValidManifests : \A m \in ValidManifests : k <= m
    IN /\ Len(Probe.value) <= Len(EntriesOf(first))
       /\ \A i \in 1..Len(Probe.value) :
            \E e \in 1..Len(EntriesOf(first)) :
              /\ EntriesOf(first)[e].InstallLocation = Probe.value[i].path
              /\ EntriesOf(first)[e].AppName = Some(Probe.value[i].associationId)

\* The entries that indicate the engine: identifier with the UE_ prefix or
\* with UnrealEngine inside, or the engine category.
IndicatesEngine(e) ==
  \/ /\ IsSome(e.AppName)
     /\ \/ StartsWith(Get(e.AppName), "UE_")
        \/ Includes(Get(e.AppName), "UnrealEngine")
  \/ e.Category = Some(<<"engine">>)

\* C16: of a manifest's entries exactly those that indicate the engine
\* become installations, in the manifest's order.
C16_ManifestFilter ==
  Probed("launcher") /\ Cardinality(ValidManifests) = 1 =>
    LET entries == EntriesOf(CHOOSE k \in ValidManifests : TRUE)
        kept == SelectSeq(entries, IndicatesEngine)
    IN /\ Len(Probe.value) = Len(kept)
       /\ \A i \in 1..Len(kept) : Probe.value[i].path = kept[i].InstallLocation

\* The records that the query of location k gives, none when it fails.
RecordsAt(k) ==
  IF registry[k].failed THEN <<>>
  ELSE parseRegistryOutput(registry[k].lines, registryLocations[k])

\* C18: the registry adapter returns the installations of every location
\* whose query succeeds, in the order of the locations, whatever the
\* queries of the other locations gave.
C18_EveryLocationQueried ==
  Probed("registry") =>
    /\ Probe.value = Concat([k \in 1..Len(registryLocations) |-> RecordsAt(k)])
    /\ \A k \in 1..Len(registryLocations) :
         \A i \in 1..Len(RecordsAt(k)) :
           \E o \in 1..Len(Probe.value) : Probe.value[o] = RecordsAt(k)[i]

\* C18 witness: a location without permission, then two locations with a
\* registration, both returned in their order.
C18_Witness ==
  /\ Probed("registry")
  /\ registry[1] = AccessDenied
  /\ Len(RecordsAt(2)) = 1
  /\ Len(RecordsAt(3)) = 1
  /\ Probe.value = RecordsAt(2) \o RecordsAt(3)

\* The variable is set, not empty, and names an existing path.
UsableVariable(k) ==
  /\ environ[envVars[k]] # None
  /\ environ[envVars[k]] # Some(<<>>)
  /\ FsKey(platform, Get(environ[envVars[k]])) \in DOMAIN disk

\* C19: the environment adapter returns at most one installation, that of
\* the first of UE_ENGINE_PATH, UE_ROOT, UNREAL_ENGINE_PATH which is set to
\* an existing path, and none when no variable is.
C19_FirstUsableVariable ==
  Probed("environment") =>
    /\ envVars = <<"UE_ENGINE_PATH", "UE_ROOT", "UNREAL_ENGINE_PATH">>
    /\ Len(Probe.value) <= 1
    /\ \A k \in 1..Len(envVars) :
         UsableVariable(k) /\ (\A m \in 1..(k - 1) : ~UsableVariable(m)) =>
           /\ Len(Probe.value) = 1
           /\ Probe.value[1].path = environ[envVars[k]]
           /\ Probe.value[1].associationId = <<"ENV_", envVars[k]>>
           /\ Probe.value[1].source = "environment"
    /\ (\A k \in 1..Len(envVars) : ~UsableVariable(k)) => Probe.value = <<>>

\* C19 witness: the first variable names a path that does not exist, the
\* second is empty, the third is used.
C19_Witness ==
  /\ Probed("environment")
  /\ environ["UE_ENGINE_PATH"] = Some(PathGone)
  /\ environ["UE_ROOT"] = Some(<<>>)
  /\ Len(Probe.value) = 1
  /\ Probe.value[1].associationId = <<"ENV_", "UNREAL_ENGINE_PATH">>

\* Line j of the output is a token line, a section boundary, a path line.
IsTokenLine(j) == StartsWith(trim(scanLines[j]), "{")
IsBoundary(j) == Includes(scanLines[j], LayoutKey)
IsPathLine(j) ==
  ~IsTokenLine(j) /\ ~IsBoundary(j) /\ Includes(scanLines[j], "REG_SZ")

\* The lines after token line i and before the next token line or boundary.
OwnLines(i) ==
  {j \in (i + 1)..Len(scanLines) :
     \A m \in (i + 1)..j : ~IsTokenLine(m) /\ ~IsBoundary(m)}

\* The token lines {G1}, which carry no path, that have a path line of their
\* own.
PairedTokens ==
  {i \in 1..Len(scanLines) :
     scanLines[i] = G1 /\ \E j \in OwnLines(i) : IsPathLine(j)}

\* C17: a token line without path gives a record only when a path line
\* follows it before the next token line or section boundary, and the
\* record's path is that line's; otherwise the token gives no record.
C17_ForwardScanBounded ==
  IsSome(scanned) =>
    LET records == SelectSeq(Get(scanned).value, LAMBDA r : r.associationId = G1)
    IN /\ Len(records) = Cardinality(PairedTokens)
       /\ \A r \in 1..Len(records) : records[r].path = Some(PathA)

\* The priority of a source: registry before launcher before environment.
SourceRank(source) ==
  IF source = "registry" THEN 1 ELSE IF source = "launcher" THEN 2 ELSE 3

\* The discovered records of the directory of a catalog entry.
ReportsOf(discovered, entry) ==
  {d \in 1..Len(discovered) : Canonical(discovered[d]) = Canonical(entry)}

\* C20: the entry that survives for a directory carries the associationId,
\* the source and (while no version is loaded) the displayName of a record of
\* the highest-priority source that reported the directory.
C20_SourcePriority ==
  \A catalog \in ReturnedCatalogs :
    \E discovered \in {Discovered} :
      \A i \in 1..Len(catalog) :
        /\ \A d \in ReportsOf(discovered, catalog[i]) :
             SourceRank(catalog[i].source) <= SourceRank(discovered[d].source)
        /\ \E d \in ReportsOf(discovered, catalog[i]) :
             /\ discovered[d].source = catalog[i].source
             /\ discovered[d].associationId = catalog[i].associationId
             /\ discovered[d].path = catalog[i].path
             /\ catalog[i].version = None =>
                  discovered[d].displayName = catalog[i].displayName

\* C20 witness: the registry and a lower-priority source reported the same
\* directory under different identifiers, and the catalog returned holds the
\* registry's record for it.
C20_Witness ==
  /\ Len(finds) > 0
  /\ ~finds[1].threw
  /\ \E discovered \in {Discovered} :
       \E d, e \in 1..Len(discovered) :
         /\ discovered[d].source = "registry"
         /\ discovered[e].source # "registry"
         /\ discovered[d].associationId # discovered[e].associationId
         /\ Canonical(discovered[d]) = Canonical(discovered[e])
         /\ \E i \in 1..Len(finds[1].value) :
              /\ Canonical(finds[1].value[i]) = Canonical(discovered[d])
              /\ finds[1].value[i].source = "registry"
              /\ finds[1].value[i].associationId = discovered[d].associationId

\* The last validateOptions call, and its enumeration of targets.
Validation == Get(validated)
Enumerated == Get(Validation.availableTargets)

\* The call reached the target resolution with a request for a category
\* and a non-empty enumeration.
GenericRequest ==
  /\ IsSome(validated)
  /\ IsSome(Validation.availableTargets)
  /\ Len(Enumerated) > 0
  /\ IsSome(Validation.options.target)
  /\ Get(Validation.options.target) \in {<<"Editor">>, <<"Game">>, <<"Client">>, <<"Server">>}

Request == Get(Validation.options.target)

OfCategory == {i \in 1..Len(Enumerated) : Enumerated[i].type = Request}

NamedLike ==
  {i \in 1..Len(Enumerated) : includes(toLowerCase(Enumerated[i].name), toLowerCase(Request))}

\* The Source directory holds MyGame.Target.cs and MyGameEditor.Target.cs.
ExampleSource ==
  /\ sourceDir.state = "ok"
  /\ sourceDir.files = <<<<"My", "Game", ".Target.cs">>,
                         <<"My", "Game", "Editor", ".Target.cs">>>>

\* C8: with a non-empty enumeration of targets, a request for Editor, Game,
\* Client or Server resolves to the name of the first enumerated target of
\* that category; when no target has the category and no target's name
\* contains the word, the call fails with the no-such-target error.  With
\* MyGame and MyGameEditor, Editor resolves to MyGameEditor and Server fails.
C8_GenericTargetResolution ==
  GenericRequest =>
    /\ OfCategory # {} =>
         /\ ~Validation.threw
         /\ \E i \in OfCategory :
              /\ \A j \in OfCategory : i <= j
              /\ Get(Validation.value).target = Enumerated[i].name
    /\ OfCategory = {} /\ NamedLike = {} =>
         /\ Validation.threw
         /\ Validation.value = None
         /\ SubSeq(Validation.message, 1, 1 + Len(Request)) = <<"No ">> \o Request
    /\ ExampleSource /\ Request = <<"Editor">> =>
         ~Validation.threw /\ Get(Validation.value).target = <<"My", "Game", "Editor">>
    /\ ExampleSource /\ Request = <<"Server">> => Validation.threw

\* C8 witness: two targets of the requested category are enumerated and
\* the call returned the name of the first.
C8_Witness ==
  /\ GenericRequest
  /\ OfCategory = {1, 2}
  /\ ~Validation.threw
  /\ Get(Validation.value).target = Enumerated[1].name
  /\ Enumerated[1].name # Enumerated[2].name

\* C7: compareVersions is a total order on versions: transitive over any
\* three values, antisymmetric (the two directions of a comparison have
\* opposite signs, and two values compare equal only when they agree on
\* Major, Minor, Patch and Changelist or are both missing), and a missing
\* version is strictly less than any version.
C7_VersionTotalOrder ==
  IsSome(cmp) =>
    LET r == Get(cmp)
    IN /\ (r.ab < 0 /\ r.bc < 0 => r.ac < 0)
       /\ (r.ab <= 0 /\ r.bc <= 0 => r.ac <= 0)
       /\ Sign(r.ab) = -Sign(r.ba)
       /\ Sign(r.bc) = -Sign(r.cb)
       /\ (r.ab = 0 <=> VersionKey(va) = VersionKey(vb))
       /\ (~IsSome(va) /\ IsSome(vb) => r.ab < 0 /\ r.ba > 0)

\* C7 witness: a missing version below a version below a third one.
C7_Witness ==
  /\ IsSome(cmp)
  /\ ~IsSome(va)
  /\ Get(cmp).ab < 0
  /\ Get(cmp).bc < 0
  /\ Get(cmp).ac < 0

\* C9: the single-line and the multi-line layout of the same (id, path)
\* pairs give identical records, one per pair, with the pair's id and path.
C9_LayoutsAgree ==
  IsSome(parsedSingle) =>
    /\ ~Get(parsedSingle).threw
    /\ Get(parsedSingle) = Get(parsedMulti)
    /\ Len(Get(parsedMulti).value) = Len(regEntries)
    /\ \A i \in 1..Len(regEntries) :
         LET rec == Get(parsedMulti).value[i]
         IN /\ rec.path = Some(regEntries[i].path)
            /\ rec.associationId = regEntries[i].guid
            /\ rec.displayName = <<"UE Engine ">> \o regEntries[i].guid
            /\ rec.source = "registry"
            /\ rec.version = None

\* C9 witness: two pairs parsed from both layouts.
C9_Witness ==
  /\ IsSome(parsedMulti)
  /\ Len(regEntries) = 2
  /\ Len(Get(parsedMulti).value) = 2
  /\ regEntries[1].guid # regEntries[2].guid

\* The version files the loader finds at a path.
FilesAt(p) ==
  IF pathExists(platform, disk, p) THEN disk[FsKey(platform, p)] ELSE NoVersionFiles

AllDigits(s) == s # <<>> /\ \A k \in 1..Len(s) : IsDigit(s[k])

\* The major and minor numbers a path's UE_<major>.<minor> segment encodes.
EncodedVersion(p) ==
  LET at == {i \in 1..Len(p) : LowerAtom(p[i]) = "ue_"}
  IN IF at = {} THEN None
     ELSE LET parts == split(From(p, (CHOOSE i \in at : TRUE) + 1))
          IN IF Len(parts) = 2 /\ AllDigits(parts[1]) /\ AllDigits(parts[2])
             THEN Some(<<DigitsValue(parts[1]), DigitsValue(parts[2])>>)
             ELSE None

\* C21: an installation of a returned catalog whose version files do not
\* parse and whose path encodes UE_<major>.<minor> has a version with that
\* major and minor, and zero for the components the path does not give.
C21_PathDerivedVersion ==
  \A catalog \in ReturnedCatalogs :
    \A i \in 1..Len(catalog) :
      \E files \in {FilesAt(Get(catalog[i].path))} :
        \E encoded \in {EncodedVersion(Get(catalog[i].path))} :
          (/\ files.editorVersion.state # "ok"
           /\ files.buildVersion.state # "ok"
           /\ IsSome(encoded))
          => /\ IsSome(catalog[i].version)
             /\ Get(catalog[i].version).MajorVersion = Get(encoded)[1]
             /\ Get(catalog[i].version).MinorVersion = Get(encoded)[2]
             /\ Get(catalog[i].version).PatchVersion = 0
             /\ Get(catalog[i].version).Changelist = 0

\* The call reached the target resolution with a request that names no
\* category.
ExplicitRequest ==
  /\ IsSome(validated)
  /\ IsSome(Validation.availableTargets)
  /\ IsSome(Validation.options.target)
  /\ Get(Validation.options.target) \notin {<<"Editor">>, <<"Game">>, <<"Client">>, <<"Server">>}

\* The enumerated targets whose name is exactly the request.
NamedExactly == {i \in 1..Len(Enumerated) : Enumerated[i].name = Request}

\* The outcome the claim gives an explicit request: the requested name when
\* an enumerated target has exactly that name, the target-not-found error
\* otherwise.
ExactOrNotFound ==
  /\ NamedExactly # {} =>
       ~Validation.threw /\ Get(Validation.value).target = Request
  /\ NamedExactly = {} =>
       /\ Validation.threw
       /\ Validation.value = None
       /\ SubSeq(Validation.message, 1, 1 + Len(Request)) = <<"Target \"">> \o Request

\* C22 as stated: an explicit target name resolves, to itself, only when an
\* enumerated target has exactly that name; otherwise the call fails with
\* the target-not-found error.
C22_ExplicitNameExact == ExplicitRequest => ExactOrNotFound

\* C22 amended: the same, when the enumeration is not empty.
C22_ExplicitNameExactNonEmpty ==
  ExplicitRequest /\ Len(Enumerated) > 0 => ExactOrNotFound

\* C22 witness: MyGame is enumerated and the request mygame, which differs
\* from it in case only, fails with the target-not-found error.
C22_Witness ==
  /\ ExplicitRequest
  /\ Request = <<"my", "game">>
  /\ \E i \in 1..Len(Enumerated) : Enumerated[i].name = <<"My", "Game">>
  /\ Validation.threw
  /\ SubSeq(Validation.message, 1, 1) = <<"Target \"">>

\* The targets detectProject lists, when it returned a project.
Detection == Get(detected)
DetectedTargets == Get(Detection.project).targets

\* The name holds the word, in any case.
HasWord(name, word) == \E k \in 1..Len(name) : LowerAtom(name[k]) = word

\* The category of a name: editor before client before server, else Game.
ExpectedCategory(name) ==
  IF HasWord(name, "editor") THEN <<"Editor">>
  ELSE IF HasWord(name, "client") THEN <<"Client">>
  ELSE IF HasWord(name, "server") THEN <<"Server">>
  ELSE <<"Game">>

\* The names of the target-definition files of the Source directory.
TargetFileNames ==
  {SubSeq(sourceDir.files[k], 1, Len(sourceDir.files[k]) - 1) :
     k \in {k \in 1..Len(sourceDir.files) :
              sourceDir.files[k][Len(sourceDir.files[k])] = ".Target.cs"}}

BothEnumerated ==
  /\ IsSome(validated)
  /\ IsSome(Validation.availableTargets)
  /\ IsSome(detected)
  /\ IsSome(Detection.project)

WithoutCorrupt ==
  [k \in 1..NumManifestPaths |->
     IF manifests[k].state = "corrupt" THEN AbsentFile ELSE manifests[k]]

\* The records of the sources other than the corrupt manifests: the registry's,
\* those of the manifests that parse, the environment's.
OtherRecords ==
  discoveredInstallations(platform, registry, WithoutCorrupt, environ, disk)

\* C24: when a manifest exists and fails to parse, a call of
\* findEngineInstallations ends as it does without that manifest, and the
\* catalog it returns has an entry for the directory of every record of the
\* registry, of the manifests that parse and of the environment.
C24_CorruptManifestSkipped ==
  (\E k \in 1..NumManifestPaths : manifests[k].state = "corrupt") =>
    \A c \in 1..Len(finds) :
      /\ \E without \in {findEngineInstallations(platform, registry, WithoutCorrupt,
                                                 environ, disk)} :
           /\ finds[c].threw = without.threw
           /\ finds[c].value = without.value
      /\ ~finds[c].threw =>
           \E others \in {OtherRecords} :
             \A d \in 1..Len(others) :
               \E i \in 1..Len(finds[c].value) :
                 Canonical(finds[c].value[i]) = Canonical(others[d])

\* C24 witness: the first manifest is corrupt, a later one lists C:\UE_4.27,
\* the registry holds an engine, and the catalog returned has the launcher's
\* engine and the registry's.
C24_Witness ==
  /\ manifests[1].state = "corrupt"
  /\ \E k \in 2..NumManifestPaths : manifests[k].state = "ok"
  /\ Len(finds) > 0
  /\ ~finds[1].threw
  /\ \E i, j \in 1..Len(finds[1].value) :
       /\ finds[1].value[i].source = "launcher"
       /\ finds[1].value[i].path = Some(PathC)
       /\ finds[1].value[j].source = "registry"

\* C25: on a platform other than Windows no call throws and every returned
\* catalog holds at most one installation, of source environment, whatever
\* the registry and the launcher manifests hold.
C25_PlatformGating ==
  platform # "win32" =>
    /\ \A c \in 1..Len(finds) : ~finds[c].threw
    /\ IsSome(resolved) => ~Call.threw
    /\ \A catalog \in ReturnedCatalogs :
         /\ Len(catalog) <= 1
         /\ \A i \in 1..Len(catalog) : catalog[i].source = "environment"

\* C25 witness: on Linux the registry and a launcher manifest hold engines,
\* and the catalog returned is the one installation of the environment.
C25_Witness ==
  /\ platform = "linux"
  /\ ~registry[1].failed
  /\ manifests[3].state = "ok"
  /\ Len(finds) > 0
  /\ ~finds[1].threw
  /\ Len(finds[1].value) = 1
  /\ finds[1].value[1].source = "environment"

\* The project of the call has no target-definition file: its Source
\* directory is missing or cannot be listed, or holds no *.Target.cs file.
NoTargetFiles ==
  \/ sourceDir.state # "ok"
  \/ \A k \in 1..Len(sourceDir.files) :
       sourceDir.files[k][Len(sourceDir.files[k])] # ".Target.cs"

\* The target asked for: options.target, Editor when none is given.
Asked ==
  IF IsSome(Validation.options.target) /\ Get(Validation.options.target) # <<>>
  THEN Get(Validation.options.target) ELSE <<"Editor">>

\* C26: a call for a project without target-definition files fails only
\* before the target resolution (no descriptor, no engine), never with a
\* target error, and when it returns its target is the one asked for.
C26_EmptyEnumerationAccepted ==
  IsSome(validated) /\ NoTargetFiles =>
    /\ IsSome(Validation.availableTargets) =>
         /\ Enumerated = <<>>
         /\ ~Validation.threw
    /\ ~Validation.threw => Get(Validation.value).target = Asked

\* C26 witness: without a Source directory, a call for the category Server
\* or for the name Other came to the target resolution and returned the
\* target asked for.
C26_Witness ==
  /\ IsSome(validated)
  /\ sourceDir.state = "absent"
  /\ IsSome(Validation.availableTargets)
  /\ ~Validation.threw
  /\ Asked \in {<<"Server">>, <<"Other">>}
  /\ Get(Validation.value).target = Asked

\* The discovered records, before deduplication, that carry the association
\* the project declares.
AssociatedRecords ==
  {d \in 1..Len(Discovered) :
     Discovered[d].associationId = Get(DeclaredAssociation(Call.project))}

\* C27: when a discovered record carries the project's association,
\* resolveEngine returns an installation at that record's directory, also
\* when another record of the directory came first under another
\* association.
C27_AssociationSurvivesDedup ==
  (/\ Returned
   /\ IsSome(DeclaredAssociation(Call.project))
   /\ AssociatedRecords # {})
  => /\ IsSome(Call.result.engine)
     /\ \E d \in AssociatedRecords :
          Canonical(Get(Call.result.engine)) = Canonical(Discovered[d])

\* The findExecutable call made.
Run == Get(ran)

\* C28: when the build's validateOptions resolved a target, the run's
\* findExecutable for the same project and request goes on with the same
\* target name; when the build's target resolution failed, the run does not
\* go on with the category name it was asked for.
C28_RunAgreesWithBuild ==
  IsSome(ran) /\ IsSome(Validation.availableTargets) =>
    /\ ~Validation.threw =>
         Run.targetName = Some(Get(Validation.value).target)
    /\ Validation.threw /\ Get(Run.options.target) \in {<<"Editor">>, <<"Game">>,
                                                       <<"Client">>, <<"Server">>} =>
         Run.targetName # Run.options.target

\* C29: a result of resolveEngine never has both an error and an engine; its
\* engine is an installation of the catalog built in the call; and it has an
\* uprojectEngine exactly when the descriptor was read with a non-empty
\* EngineAssociation, the guid being that token as it stands.
C29_ResultShape ==
  IsSome(resolved) =>
    /\ ~(IsSome(Call.result.error) /\ IsSome(Call.result.engine))
    /\ IsSome(Call.result.engine) =>
         \E i \in 1..Len(Call.catalog) : Call.catalog[i] = Get(Call.result.engine)
    /\ IsSome(Call.result.uprojectEngine) <=> IsSome(DeclaredAssociation(Call.project))
    /\ IsSome(Call.result.uprojectEngine) =>
         Get(Call.result.uprojectEngine).guid = Get(DeclaredAssociation(Call.project))

\* The execute call made.
Execution == Get(executed)

\* C30: execute does not throw; its result has success exactly when the exit
\* code is 0 and an error exactly when it has no success; and when
\* validateOptions failed (no descriptor, no engine, target not found) the
\* result has no success and exit code -1, and no build tool was started.
C30_ExecuteResultShape ==
  IsSome(executed) =>
    /\ ~Execution.threw
    /\ Execution.result.success <=> Execution.result.exitCode = 0
    /\ IsSome(Execution.result.error) <=> ~Execution.result.success
    /\ Execution.validation.threw =>
         /\ ~Execution.result.success
         /\ Execution.result.exitCode = -1
         /\ Execution.invoked = "none"
    /\ Execution.result.success =>
         /\ Execution.invoked # "none"
         /\ Execution.process = [started |-> TRUE, exitCode |-> 0]

\* C30 witness: a call whose target was not found returned exit code -1
\* without a build tool, though the engine has Build.bat.
C30_Witness ==
  /\ IsSome(executed)
  /\ Execution.validation.threw
  /\ SubSeq(Execution.validation.message, 1, 1) \in {<<"No ">>, <<"Target \"">>}
  /\ Execution.tools.buildBat
  /\ Execution.result.exitCode = -1
  /\ ~Execution.result.success
  /\ Execution.invoked = "none"

====
